---- MODULE Spec2Model ----
(***************************************************************************)
(* Model of the agent-side reconciliation core (vpn_server/vpn_agent.py)   *)
(* and of the control plane's task queue (central_server/web/handlers).    *)
(*                                                                         *)
(* Strings that the code trims or validates are modelled as sequences of   *)
(* tokens: the token " " is white space, every other token is a run of    *)
(* non-blank characters.  "k" is <<"k">>, " k " is <<" ", "k", " ">>.      *)
(***************************************************************************)
EXTENDS Integers, Sequences, FiniteSets, TLC

VARIABLES
    disk,   \* content of the file at xray_config_path: the list of inbounds
    last,   \* per caller: what its apply_tasks call did, until the caller is done with it
    ops,    \* per key: the last two add_key/del_key tasks that took effect on disk
    uniq0,  \* per inbound: the initial client list held each id at most once
    push,   \* the local command listener's request in progress
    server_tasks,  \* control plane: the server_tasks table, row i has id i
    hs,     \* control plane: per client, its request being handled or its response
    heartbeats,  \* control plane: the server_heartbeats table, row i has id i
    ag,     \* the agent loop: where it is in its iteration, and its task locals
    mon     \* the agent loop: its counter windows and the heartbeat of the iteration

agentVars == <<disk, last, ops, uniq0, push, mon>>
queueVars == <<server_tasks, hs, heartbeats>>
vars == <<disk, last, ops, uniq0, push, server_tasks, hs, heartbeats, ag, mon>>

----------------------------------------------------------------------------
(* Bounds of the model *)

MaxBatch == 2        \* longest task batch pushed to the local listener
MaxTasks == 2        \* most rows the server_tasks table gets
MaxBeats == 2        \* most rows the server_heartbeats table gets

----------------------------------------------------------------------------
(* Strings *)

S(x) == <<x>>
SP == " "

RECURSIVE LStrip(_)
LStrip(s) == IF s # <<>> /\ Head(s) = SP THEN LStrip(Tail(s)) ELSE s

RECURSIVE RStrip(_)
RStrip(s) == IF s # <<>> /\ s[Len(s)] = SP THEN RStrip(SubSeq(s, 1, Len(s) - 1)) ELSE s

\* str.strip()
Strip(s) == RStrip(LStrip(s))

----------------------------------------------------------------------------
(* The proxy user list *)

KA == S("a")
KB == S("b")
Keys == {KA, KB}

\* email absent, None or empty: falsy at line 205
NoEmail == <<>>
Flow == "xtls-rprx-vision"

Entry(id, email) == [id |-> id, flow |-> Flow, email |-> email]

Inbound(protocol, clients) == [protocol |-> protocol, clients |-> clients]

\* client lists a config file may hold before the agent touches it
InitClients ==
    { <<>>,
      <<Entry(KA, NoEmail)>>,
      <<Entry(KB, NoEmail)>>,
      <<Entry(KB, NoEmail), Entry(KA, NoEmail)>>,
      <<Entry(KA, NoEmail), Entry(KA, NoEmail)>> }

Count(clients, id) == Cardinality({i \in 1..Len(clients) : clients[i].id = id})

Unique(clients) == \A i, j \in 1..Len(clients) : clients[i].id = clients[j].id => i = j

IsVless(b) == b.protocol = "vless"

\* same entries, whatever their order
SameEntries(c1, c2) ==
    \A e \in {c1[i] : i \in 1..Len(c1)} \cup {c2[i] : i \in 1..Len(c2)} :
        Cardinality({i \in 1..Len(c1) : c1[i] = e}) = Cardinality({i \in 1..Len(c2) : c2[i] = e})

SameLists(cfg1, cfg2) ==
    /\ Len(cfg1) = Len(cfg2)
    /\ \A i \in 1..Len(cfg1) :
        /\ cfg1[i].protocol = cfg2[i].protocol
        /\ SameEntries(cfg1[i].clients, cfg2[i].clients)

----------------------------------------------------------------------------
(* Tasks as the agent sees them: JSON objects {type, id, email, task_id} *)

NoTaskId == 0

Task(type, id, email, task_id) == [type |-> type, id |-> id, email |-> email, task_id |-> task_id]

ADD == S("add_key")
DEL == S("del_key")

\* tasks an operator may push to the local listener
PushTasks ==
    { Task(ADD, <<SP, "a", SP>>, NoEmail, NoTaskId),
      Task(ADD, KB, S("e"), NoTaskId),
      Task(ADD, <<SP>>, NoEmail, NoTaskId),
      Task(DEL, KA, NoEmail, NoTaskId),
      Task(<<SP, "del_key">>, KB, NoEmail, NoTaskId),
      Task(S("custom"), KA, NoEmail, NoTaskId) }

RECURSIVE SeqsUpTo(_, _)
SeqsUpTo(set, n) ==
    IF n = 0 THEN {<<>>}
    ELSE LET shorter == SeqsUpTo(set, n - 1)
         IN shorter \cup {Append(s, x) : s \in {t \in shorter : Len(t) = n - 1}, x \in set}

----------------------------------------------------------------------------
(* apply_tasks: the in-memory mutation *)

\* add_key that appends without looking for the id
AddKeyNoCheck(clients, user_id, email) ==
    [clients |-> Append(clients, Entry(user_id, email)), changed |-> TRUE]

\* lines 202-208
AddKey(clients, user_id, email) ==
    IF ~ \E i \in 1..Len(clients) : clients[i].id = user_id
    THEN [clients |-> Append(clients, Entry(user_id, email)), changed |-> TRUE]
    ELSE [clients |-> clients, changed |-> FALSE]

\* del_key that reports a change whether or not it removed anything
DelKeyAlwaysChanged(clients, user_id) ==
    [clients |-> SelectSeq(clients, LAMBDA c : c.id # user_id), changed |-> TRUE]

\* del_key that removes only the first entry with the id
DelKeyFirst(clients, user_id) ==
    LET hits == {i \in 1..Len(clients) : clients[i].id = user_id}
    IN IF hits = {} THEN [clients |-> clients, changed |-> FALSE]
       ELSE LET f == CHOOSE i \in hits : \A j \in hits : i <= j
            IN [clients |-> SubSeq(clients, 1, f - 1) \o SubSeq(clients, f + 1, Len(clients)),
                changed |-> TRUE]

\* lines 209-213
DelKey(clients, user_id) ==
    LET new_clients == SelectSeq(clients, LAMBDA c : c.id # user_id)
    IN IF Len(new_clients) # Len(clients)
       THEN [clients |-> new_clients, changed |-> TRUE]
       ELSE [clients |-> clients, changed |-> FALSE]

\* a mutator that takes every kind other than add_key for del_key
ApplyToClientsElseDel(clients, action, user_id, email) ==
    IF action = ADD THEN AddKey(clients, user_id, email)
    ELSE DelKey(clients, user_id)

\* lines 200-213, for one inbound
ApplyToClients(clients, action, user_id, email) ==
    IF action = ADD THEN AddKey(clients, user_id, email)
    ELSE IF action = DEL THEN DelKey(clients, user_id)
    ELSE [clients |-> clients, changed |-> FALSE]

\* a loop that visits the first vless inbound only
FirstVlessInbound(cfg) ==
    {i \in 1..Len(cfg) : IsVless(cfg[i]) /\ \A j \in 1..(i - 1) : ~IsVless(cfg[j])}

\* lines 193, 200: only the inbounds whose protocol is vless are visited
VlessInbounds(cfg) == {i \in 1..Len(cfg) : IsVless(cfg[i])}

\* lines 195-213: one task against every vless inbound
ApplyTask(cfg, task) ==
    LET action == Strip(task.type)
        user_id == Strip(task.id)
        email == task.email
        res == [i \in 1..Len(cfg) |->
                  IF i \in VlessInbounds(cfg)
                  THEN ApplyToClients(cfg[i].clients, action, user_id, email)
                  ELSE [clients |-> cfg[i].clients, changed |-> FALSE]]
    IN IF user_id = <<>>
       THEN [cfg |-> cfg, changed |-> FALSE]
       ELSE [cfg |-> [i \in 1..Len(cfg) |-> Inbound(cfg[i].protocol, res[i].clients)],
             changed |-> \E i \in 1..Len(cfg) : res[i].changed]

\* lines 191-213: the loop over the batch, in delivery order
RECURSIVE Mutate(_, _)
Mutate(cfg, tasks) ==
    IF tasks = <<>> THEN [cfg |-> cfg, changed |-> FALSE]
    ELSE LET one == ApplyTask(cfg, Head(tasks))
             rest == Mutate(one.cfg, Tail(tasks))
         IN [cfg |-> rest.cfg, changed |-> one.changed \/ rest.changed]

----------------------------------------------------------------------------
(* Bookkeeping of which add_key/del_key took effect last, per key *)

Last2(s) == IF Len(s) > 2 THEN SubSeq(s, Len(s) - 1, Len(s)) ELSE s

RECURSIVE Effective(_, _)
Effective(o, tasks) ==
    IF tasks = <<>> THEN o
    ELSE LET t == Head(tasks)
             k == Strip(t.id)
             a == Strip(t.type)
         IN Effective(IF k \in DOMAIN o /\ a \in {ADD, DEL}
                      THEN [o EXCEPT ![k] = Last2(Append(@, a))]
                      ELSE o,
                      Tail(tasks))

----------------------------------------------------------------------------
(* apply_tasks: reading, writing, reloading *)

Callers == {"push", "pull"}

NoEffects == [src |-> "none"]

Effects(src, tasks, before, mem, io, changed, writes, reloads, restarts) ==
    [src |-> src, tasks |-> tasks, before |-> before, mem |-> mem,
     readOk |-> io # "read failed", writeFailed |-> io = "write failed",
     raised |-> io = "task raised", io |-> io,
     changed |-> changed, writes |-> writes, reloads |-> reloads, restarts |-> restarts]

Called(c) == last[c].src # "none"

\* the call reached the file: it read it, and wrote it if it had to
Took(e) == e.readOk /\ ~e.writeFailed

\* how writing the file can end: done, or an exception when the temporary file
\* is opened, while it is being filled, or when it is renamed over the path
WriteOutcomes == {"ok", "open failed", "dump failed", "replace failed"}

\* a write that opens the path itself and fills it in place
write_json_inplace(old, data, outcome) ==
    CASE outcome = "ok" -> [path |-> data, raised |-> FALSE]
      [] outcome = "open failed" -> [path |-> old, raised |-> TRUE]
      [] outcome = "dump failed" -> [path |-> SubSeq(data, 1, Len(data) - 1), raised |-> TRUE]
      [] outcome = "replace failed" -> [path |-> data, raised |-> TRUE]

\* lines 179-183: what the path holds afterwards, and whether an exception was raised
write_json_atomic(old, data, outcome) ==
    [path |-> IF outcome = "ok" THEN data ELSE old, raised |-> outcome # "ok"]

\* a JSON value that is not an object: it has no fields to read
NotAnObject == [scalar |-> TRUE]

IsObject(t) == "type" \in DOMAIN t

AllObjects(tasks) == \A i \in 1..Len(tasks) : IsObject(tasks[i])

\* a call that signals the reload whenever the list changed in memory, whether
\* or not the file was written
apply_tasks_reload_unwritten(tasks, src) ==
    LET m == Mutate(disk, tasks)
    IN \E o \in WriteOutcomes :
         /\ disk' = IF m.changed THEN write_json_atomic(disk, m.cfg, o).path ELSE disk
         /\ last' = [last EXCEPT ![src] =
                       Effects(src, tasks, disk, m.cfg, IF o = "ok" THEN "ok" ELSE "write failed",
                               m.changed, IF m.changed /\ o = "ok" THEN 1 ELSE 0,
                               IF m.changed THEN 1 ELSE 0, 0)]
         /\ ops' = IF o = "ok" THEN Effective(ops, tasks) ELSE ops

apply_tasks_stale(tasks, src) ==
    LET other == CHOOSE c \in Callers : c # src
        read == IF Called(other) /\ last[other].readOk THEN last[other].before ELSE disk
        m == Mutate(read, tasks)
        n == IF m.changed THEN 1 ELSE 0
    IN /\ disk' = IF m.changed THEN m.cfg ELSE disk
       /\ last' = [last EXCEPT ![src] = Effects(src, tasks, read, m.cfg, "ok", m.changed, n, n, 0)]
       /\ ops' = Effective(ops, tasks)

\* lines 186-222; src is the caller
apply_tasks(tasks, src) ==
    \/ \* read_json raises: return (lines 187-190)
       /\ disk' = disk
       /\ last' = [last EXCEPT ![src] = Effects(src, tasks, disk, disk, "read failed", FALSE, 0, 0, 0)]
       /\ ops' = ops
    \/ \* task.get on a value that is not an object raises out of the loop
       \* (lines 192-193): the tasks before it changed only the copy in memory
       /\ ~AllObjects(tasks)
       /\ LET bad == CHOOSE i \in 1..Len(tasks) :
                        ~IsObject(tasks[i]) /\ AllObjects(SubSeq(tasks, 1, i - 1))
              m == Mutate(disk, SubSeq(tasks, 1, bad - 1))
          IN /\ disk' = disk
             /\ last' = [last EXCEPT ![src] =
                           Effects(src, tasks, disk, m.cfg, "task raised", m.changed, 0, 0, 0)]
             /\ ops' = ops
    \/ AllObjects(tasks) /\
       LET m == Mutate(disk, tasks)
       IN IF ~m.changed
          THEN \* nothing changed: no write, no reload (line 214)
               /\ disk' = disk
               /\ last' = [last EXCEPT ![src] = Effects(src, tasks, disk, m.cfg, "ok", FALSE, 0, 0, 0)]
               /\ ops' = Effective(ops, tasks)
          ELSE \/ \* write_json_atomic raises: swallowed (lines 216, 221)
                  \E o \in WriteOutcomes \ {"ok"} :
                      /\ disk' = write_json_atomic(disk, m.cfg, o).path
                      /\ last' = [last EXCEPT ![src] =
                                    Effects(src, tasks, disk, m.cfg, "write failed", TRUE, 0, 0, 0)]
                      /\ ops' = ops
               \/ \* written; systemctl reload returns rc, restart on failure (lines 216-220)
                  \E rc \in {0, 1} :
                      /\ disk' = write_json_atomic(disk, m.cfg, "ok").path
                      /\ last' = [last EXCEPT ![src] =
                                    Effects(src, tasks, disk, m.cfg,
                                            IF rc # 0 THEN "reload failed" ELSE "ok",
                                            TRUE, 1, 1, IF rc # 0 THEN 1 ELSE 0)]
                      /\ ops' = Effective(ops, tasks)
               \/ \* written; subprocess.call raises: swallowed (lines 218, 221)
                  /\ disk' = write_json_atomic(disk, m.cfg, "ok").path
                  /\ last' = [last EXCEPT ![src] = Effects(src, tasks, disk, m.cfg, "reload raised", TRUE, 1, 1, 0)]
                  /\ ops' = Effective(ops, tasks)

\* lines 214-220 when systemctl does not exit: subprocess.call is given no
\* timeout, so the call that follows the write never returns
apply_tasks_hangs(tasks, src) ==
    /\ AllObjects(tasks)
    /\ LET m == Mutate(disk, tasks)
       IN /\ m.changed
          /\ disk' = write_json_atomic(disk, m.cfg, "ok").path
          /\ \E cmd \in {"reload", "restart"} :
                last' = [last EXCEPT ![src] =
                           Effects(src, tasks, disk, m.cfg, cmd \o " hangs", TRUE, 1, 1,
                                   IF cmd = "restart" THEN 1 ELSE 0)]
          /\ ops' = Effective(ops, tasks)

----------------------------------------------------------------------------
(* The local push listener (handle_command) *)

NoBody == [shape |-> "none", tasks |-> <<>>]

PushIdle == [pc |-> "idle", body |-> NoBody, status |-> 0]

Payloads ==
    {[shape |-> "tasks", tasks |-> b] : b \in SeqsUpTo(PushTasks, MaxBatch)}
    \cup {[shape |-> "array", tasks |-> <<t>>] : t \in PushTasks}
    \cup {[shape |-> "object", tasks |-> <<t>>] : t \in PushTasks}
    \cup {[shape |-> "scalar", tasks |-> <<>>], [shape |-> "badjson", tasks |-> <<>>]}

\* an object without the fields of a task
EmptyTask == Task(<<>>, <<>>, NoEmail, NoTaskId)

\* payloads outside the three shapes: invalid JSON, a scalar, an object whose
\* tasks field is not an array, an array holding something that is not an object
BadPayloads ==
    {[shape |-> "scalar", tasks |-> <<>>], [shape |-> "badjson", tasks |-> <<>>],
     [shape |-> "tasks not array", tasks |-> <<EmptyTask>>],
     [shape |-> "array", tasks |-> <<NotAnObject>>],
     [shape |-> "array", tasks |-> <<Task(ADD, KB, NoEmail, NoTaskId), NotAnObject>>]}

PushPayloads ==
    {[shape |-> "tasks", tasks |-> <<Task(ADD, KB, NoEmail, NoTaskId)>>],
     [shape |-> "object", tasks |-> <<Task(DEL, KA, NoEmail, NoTaskId)>>],
     [shape |-> "array", tasks |-> <<Task(DEL, KB, NoEmail, NoTaskId)>>]}
    \cup BadPayloads

\* the shapes line 257-264 turn into a list of tasks: an object with a tasks
\* array, any other object, an array
Applied == {"tasks", "object", "array", "tasks not array"}

\* a POST /command arrives; the handler awaits its body (line 254)
CommandArrives(payloads) ==
    /\ push.pc = "idle"
    /\ \E body \in payloads : push' = [pc |-> "body", body |-> body, status |-> 0]
    /\ UNCHANGED <<disk, last, ops, uniq0>>
    /\ UNCHANGED <<queueVars, ag, mon>>

\* lines 253-256, 265-266: the payload is rejected
CommandRejected ==
    /\ push.pc = "body"
    /\ push.body.shape \notin Applied
    /\ push' = [push EXCEPT !.pc = "respond", !.status = 400]
    /\ UNCHANGED <<disk, last, ops, uniq0>>
    /\ UNCHANGED <<queueVars, ag, mon>>

\* lines 257-268: the payload is normalised and applied; an exception that
\* leaves apply_tasks is answered by the framework with status 500
CommandApplied ==
    /\ push.pc = "body"
    /\ push.body.shape \in Applied
    /\ apply_tasks(push.body.tasks, "push")
    /\ push' = [push EXCEPT !.pc = "respond",
                            !.status = IF last'["push"].raised THEN 500 ELSE 200]
    /\ UNCHANGED <<uniq0, queueVars, ag, mon>>

\* lines 267-268 when apply_tasks does not return: no response is written, and
\* the event loop that runs run_loop is blocked with it
CommandHangs ==
    /\ push.pc = "body"
    /\ push.body.shape \in Applied
    /\ apply_tasks_hangs(push.body.tasks, "push")
    /\ push' = [push EXCEPT !.pc = "hung"]
    /\ UNCHANGED <<uniq0, queueVars, ag, mon>>

\* the response is written; the request is over
CommandDone ==
    /\ push.pc = "respond"
    /\ push' = PushIdle
    /\ last' = [last EXCEPT !["push"] = NoEffects]
    /\ UNCHANGED <<disk, ops, uniq0, queueVars, ag, mon>>

handle_command(payloads) ==
    CommandArrives(payloads) \/ CommandRejected \/ CommandApplied \/ CommandDone

----------------------------------------------------------------------------
(* Control plane: the task queue *)

Clients == {"agent", "op1", "op2"}

SECRET_TOKEN == S("secret")

NoHeader == <<>>
Bearer(token) == <<"Bearer", SP>> \o token

\* a check that takes the scheme in any letter case
VerifyTokenAnyCase(authorization) ==
    /\ authorization # NoHeader
    /\ Len(authorization) >= 2 /\ SubSeq(authorization, 1, 2) \in {<<"Bearer", SP>>, <<"bearer", SP>>}
    /\ SubSeq(authorization, 3, Len(authorization)) = SECRET_TOKEN

\* web/utils/auth.py, verify_token
VerifyToken(authorization) ==
    /\ authorization # NoHeader
    /\ Len(authorization) >= 2 /\ SubSeq(authorization, 1, 2) = <<"Bearer", SP>>
    /\ SubSeq(authorization, 3, Len(authorization)) = SECRET_TOKEN

\* the vpn_servers table: server_id -> is_active
Servers == [s1 |-> TRUE, s2 |-> FALSE]
ServerIds == DOMAIN Servers

\* key the control plane generates when none is given (uuid4)
KG == S("g")

\* "0x" followed by 30 hexadecimal digits: 32 characters that int(hex, 16) reads
K0x == S("0x")

\* uuid.UUID(key_id) does not raise: it drops "urn:", "uuid:", braces and
\* hyphens, wants 32 characters left and hands them to int(hex, 16)
IsUuid(key_id) == key_id \in {KA, KB, KG, K0x}

Row(server_id, type, key_id, email, status) ==
    [server_id |-> server_id, type |-> type, key_id |-> key_id, email |-> email,
     status |-> status]

Idle == [op |-> "idle", pc |-> "idle"]

\* the agent's locals; seen: ids of the tasks that ever reached it in a response
AgentAt(pc, done_ids, n, sent, seen) ==
    [pc |-> pc, done_ids |-> done_ids, n |-> n, sent |-> sent, seen |-> seen]

AgentIdle == AgentAt("sample", <<>>, 0, <<>>, {})

\* a finished request: the response the client gets
Done(op, code, body) == [op |-> op, pc |-> "done", code |-> code, body |-> body]

Free(c) == hs[c].pc \in {"idle", "done"}

\* rows that an add_key/remove_key commit in progress is about to insert
Inserting == {c \in Clients : hs[c].pc = "commit" /\ hs[c].op \in {"add_key", "remove_key"}}

\* rows matched by the uniqueness query (keys.py lines 98-105, 163-170)
Active(server_id, key_id, type) ==
    {i \in 1..Len(server_tasks) :
        /\ server_tasks[i].server_id = server_id
        /\ server_tasks[i].key_id = key_id
        /\ server_tasks[i].type = type
        /\ server_tasks[i].status \in {"pending", "delivered"}}

\* keys.py lines 67-108: add_key up to its uniqueness query
AddKeyCheck(c, auth, server_id, user_email, custom_key_id) ==
    /\ Free(c)
    /\ Len(server_tasks) + Cardinality(Inserting) < MaxTasks
    /\ LET key_id == IF Strip(custom_key_id) # <<>> THEN Strip(custom_key_id) ELSE KG
           n == Cardinality(Active(server_id, key_id, ADD))
       IN hs' = [hs EXCEPT ![c] =
            IF ~VerifyToken(auth) THEN Done("add_key", 401, <<>>)
            ELSE IF server_id \notin ServerIds THEN Done("add_key", 404, <<>>)
            ELSE IF ~Servers[server_id] THEN Done("add_key", 400, <<>>)
            ELSE IF ~IsUuid(key_id) THEN Done("add_key", 400, <<>>)
            ELSE IF n = 1 THEN Done("add_key", 409, <<>>)
            ELSE IF n > 1 THEN Done("add_key", 500, <<>>)
            ELSE [op |-> "add_key", pc |-> "commit",
                  row |-> Row(server_id, ADD, key_id, Strip(user_email), "pending")]]
    /\ UNCHANGED <<server_tasks, heartbeats, agentVars, ag>>

\* keys.py lines 139-173: remove_key up to its uniqueness query
RemoveKeyCheck(c, auth, server_id, key_id) ==
    /\ Free(c)
    /\ Len(server_tasks) + Cardinality(Inserting) < MaxTasks
    /\ LET n == Cardinality(Active(server_id, key_id, DEL))
       IN hs' = [hs EXCEPT ![c] =
            IF ~VerifyToken(auth) THEN Done("remove_key", 401, <<>>)
            ELSE IF server_id \notin ServerIds THEN Done("remove_key", 404, <<>>)
            ELSE IF ~IsUuid(key_id) THEN Done("remove_key", 400, <<>>)
            ELSE IF n = 1 THEN Done("remove_key", 409, <<>>)
            ELSE IF n > 1 THEN Done("remove_key", 500, <<>>)
            ELSE [op |-> "remove_key", pc |-> "commit",
                  row |-> Row(server_id, DEL, key_id, NoEmail, "pending")]]
    /\ UNCHANGED <<server_tasks, heartbeats, agentVars, ag>>

\* keys.py lines 110-130, 175-193: the row is inserted and committed
CreateCommit(c) ==
    /\ hs[c].pc = "commit" /\ hs[c].op \in {"add_key", "remove_key"}
    /\ server_tasks' = Append(server_tasks, hs[c].row)
    /\ hs' = [hs EXCEPT ![c] = Done(hs[c].op, 200, <<Len(server_tasks) + 1>>)]
    /\ UNCHANGED <<heartbeats, agentVars, ag>>

\* a pull that selects delivered rows as well
PendingOrDeliveredFor(server_id) ==
    SelectSeq([i \in 1..Len(server_tasks) |-> i],
              LAMBDA i : server_tasks[i].server_id = server_id
                         /\ server_tasks[i].status \in {"pending", "delivered"})

\* a pull that selects the pending rows of every server
PendingAnyServer(server_id) ==
    SelectSeq([i \in 1..Len(server_tasks) |-> i], LAMBDA i : server_tasks[i].status = "pending")

\* api.py lines 210-213: the rows a pull selects, in ascending id order
PendingFor(server_id) ==
    SelectSeq([i \in 1..Len(server_tasks) |-> i],
              LAMBDA i : server_tasks[i].server_id = server_id /\ server_tasks[i].status = "pending")

\* api.py lines 200-213: get_tasks up to its query
GetTasksSelect(c, auth, server_id) ==
    /\ Free(c)
    /\ hs' = [hs EXCEPT ![c] =
            IF ~VerifyToken(auth) THEN Done("get_tasks", 401, <<>>)
            ELSE IF server_id = "" THEN Done("get_tasks", 200, <<>>)
            ELSE [op |-> "get_tasks", pc |-> "commit", server_id |-> server_id,
                  sel |-> PendingFor(server_id)]]
    /\ UNCHANGED <<server_tasks, heartbeats, agentVars>>

\* api.py lines 218-227: what the response says of row i
TaskJson(i) == Task(server_tasks[i].type, server_tasks[i].key_id, server_tasks[i].email, i)

\* api.py lines 215-227: the selected rows are marked delivered and returned
GetTasksCommit(c) ==
    /\ hs[c].pc = "commit" /\ hs[c].op = "get_tasks"
    /\ server_tasks' = [i \in 1..Len(server_tasks) |->
                    IF \E n \in 1..Len(hs[c].sel) : hs[c].sel[n] = i
                    THEN [server_tasks[i] EXCEPT !.status = "delivered"]
                    ELSE server_tasks[i]]
    /\ hs' = [hs EXCEPT ![c] =
                Done("get_tasks", 200, [n \in 1..Len(hs[c].sel) |-> TaskJson(hs[c].sel[n])])]
    /\ UNCHANGED <<heartbeats, agentVars, ag>>

NoParam == "(missing)"

\* str.lower() on the status values requests carry
Lower(status) ==
    IF status = "DONE" THEN "done"
    ELSE IF status = "Failed" THEN "failed"
    ELSE status

\* the status values operators' acknowledgments carry
AckStatuses == {"done", "failed", "DONE", "delivered"}

\* ack_task storing whatever status it is given
AckSelectAnyStatus(c, auth, task_id, status) ==
    /\ Free(c)
    /\ hs' = [hs EXCEPT ![c] =
            IF ~VerifyToken(auth) THEN Done("ack_task", 401, <<>>)
            ELSE IF status = NoParam THEN Done("ack_task", 422, <<>>)
            ELSE IF task_id \notin 1..Len(server_tasks) THEN Done("ack_task", 404, <<>>)
            ELSE [op |-> "ack_task", pc |-> "commit", task_id |-> task_id,
                  status |-> Lower(status)]]
    /\ UNCHANGED <<server_tasks, heartbeats, agentVars>>

\* api.py lines 230-244: ack_task up to its query; status is the query parameter
AckSelect(c, auth, task_id, status) ==
    /\ Free(c)
    /\ hs' = [hs EXCEPT ![c] =
            IF ~VerifyToken(auth) THEN Done("ack_task", 401, <<>>)
            ELSE IF status = NoParam THEN Done("ack_task", 422, <<>>)
            ELSE IF Lower(status) \notin {"done", "failed"} THEN Done("ack_task", 400, <<>>)
            ELSE IF task_id \notin 1..Len(server_tasks) THEN Done("ack_task", 404, <<>>)
            ELSE [op |-> "ack_task", pc |-> "commit", task_id |-> task_id,
                  status |-> Lower(status)]]
    /\ UNCHANGED <<server_tasks, heartbeats, agentVars>>

\* api.py lines 245-247: the status is stored
AckCommit(c) ==
    /\ hs[c].pc = "commit" /\ hs[c].op = "ack_task"
    /\ server_tasks' = [server_tasks EXCEPT ![hs[c].task_id].status = hs[c].status]
    /\ hs' = [hs EXCEPT ![c] = Done("ack_task", 200, <<>>)]
    /\ UNCHANGED <<heartbeats, agentVars, ag>>

----------------------------------------------------------------------------
(* Requests of clients other than the agent *)

Operators == {"op1", "op2"}

Authorized == Bearer(SECRET_TOKEN)

\* POST /api/keys/add
add_key(cs, server_ids, key_ids) ==
    \E c \in cs, s \in server_ids, k \in key_ids :
        AddKeyCheck(c, Authorized, s, <<"e", SP>>, k)

\* POST /api/keys/remove
remove_key(cs, server_ids, key_ids) ==
    \E c \in cs, s \in server_ids, k \in key_ids :
        RemoveKeyCheck(c, Authorized, s, k)

\* GET /tasks?server_id=
get_tasks(cs, server_ids) ==
    \E c \in cs, s \in server_ids :
        GetTasksSelect(c, Authorized, s) /\ UNCHANGED ag

\* POST /tasks/{task_id}/ack?status=
ack_task(cs, statuses) ==
    \E c \in cs, t \in 1..MaxTasks, st \in statuses :
        AckSelect(c, Authorized, t, st) /\ UNCHANGED ag

Commit(cs) == \E c \in cs : CreateCommit(c) \/ GetTasksCommit(c) \/ AckCommit(c)

----------------------------------------------------------------------------
(* The agent's counter sources: files under /proc as lines of tokens *)

\* a token of a file: an integer literal, a decimal literal (v is its integer
\* part) or any other run of non-blank characters
I(n) == [kind |-> "int", v |-> n, w |-> ""]
D(n) == [kind |-> "dec", v |-> n, w |-> ""]
W(w) == [kind |-> "word", v |-> 0, w |-> w]

\* a file: its lines, each a sequence of tokens; "" has no line, "\n" has one empty line
File(lines) == [st |-> "ok", lines |-> lines]
Missing == [st |-> "missing", lines |-> <<>>]
Unreadable == [st |-> "unreadable", lines |-> <<>>]

\* the outcome of an expression: a value, or an exception raised
Ok(v) == [ok |-> TRUE, v |-> v]
Raised == [ok |-> FALSE, v |-> 0]

\* lines 60-65: only FileNotFoundError is caught
read_proc(f) ==
    IF f.st = "unreadable" THEN Raised
    ELSE IF f.st = "missing" THEN Ok(<<>>)
    ELSE Ok(f.lines)

\* str.split(): the tokens of the whole text
RECURSIVE Split(_)
Split(text) == IF text = <<>> THEN <<>> ELSE Head(text) \o Split(Tail(text))

\* int(s) and float(s) succeed
IntOk(tok) == tok.kind = "int"
FloatOk(tok) == tok.kind \in {"int", "dec"}

\* line 283
uptime_s(f) ==
    LET r == read_proc(f)
    IN IF ~r.ok THEN Raised
       ELSE IF r.v = <<>> THEN Ok(0)
       ELSE IF Split(r.v) = <<>> THEN Raised
       ELSE IF ~FloatOk(Split(r.v)[1]) THEN Raised
       ELSE Ok(Split(r.v)[1].v)

\* line 284: the first token as it stands, "0.00" for an empty text
load1(f) ==
    LET r == read_proc(f)
    IN IF ~r.ok THEN Raised
       ELSE IF r.v = <<>> THEN Ok(D(0))
       ELSE IF Split(r.v) = <<>> THEN Raised
       ELSE Ok(Split(r.v)[1])

\* lines 288-293: the number after the first occurrence of the label, in MB
MemField(text, label) ==
    LET hits == {i \in 1..Len(text) :
                    /\ Len(text[i]) >= 2
                    /\ text[i][1] = W(label)
                    /\ FloatOk(text[i][2])}
    IN IF hits = {} THEN 0
       ELSE text[CHOOSE i \in hits : \A j \in hits : i <= j][2].v \div 1024

\* lines 285-293
meminfo(f) ==
    LET r == read_proc(f)
    IN IF ~r.ok THEN Raised
       ELSE Ok([mem_total |-> MemField(r.v, "MemTotal:"), mem_free |-> MemField(r.v, "MemAvailable:")])

\* x / y rounded to the nearest integer, ties to even (round() on floats), y > 0
RoundDiv(x, y) ==
    LET q == x \div y
        r == x % y
    IN IF 2 * r < y THEN q
       ELSE IF 2 * r > y THEN q + 1
       ELSE IF q % 2 = 0 THEN q ELSE q + 1

\* int(x / y): truncation towards zero, y > 0
TruncDiv(x, y) == IF x >= 0 THEN x \div y ELSE 0 - ((0 - x) \div y)

Max(a, b) == IF a >= b THEN a ELSE b
Min(a, b) == IF a <= b THEN a ELSE b

RECURSIVE Sum(_)
Sum(s) == IF s = <<>> THEN 0 ELSE Head(s) + Sum(Tail(s))

\* lines 85-89: the numbers of the first line of /proc/stat, after its label
read_cpu(f) ==
    LET r == read_proc(f)
    IN IF ~r.ok THEN Raised
       ELSE IF r.v = <<>> THEN Raised
       ELSE LET toks == Tail(r.v[1])
            IN IF r.v[1] = <<>> THEN Ok(<<>>)
               ELSE IF \E i \in 1..Len(toks) : ~IntOk(toks[i]) THEN Raised
               ELSE Ok([i \in 1..Len(toks) |-> toks[i].v])

\* lines 83-103; the percentages are in tenths of a percent
cpu_sample(fa, fb) ==
    LET a == read_cpu(fa)
        b == read_cpu(fb)
    IN IF ~a.ok \/ ~b.ok THEN Raised
       ELSE IF Len(a.v) < 5 \/ Len(b.v) < 5 THEN Raised
       ELSE LET idle_a == a.v[4] + a.v[5]
                idle_b == b.v[4] + b.v[5]
                total == Max(1, Sum(b.v) - Sum(a.v))
                busy == total - (idle_b - idle_a)
            IN IF Len(a.v) < 7 \/ Len(b.v) < 7 THEN Raised
               ELSE Ok([cpu_pct |-> RoundDiv(busy * 1000, total),
                        softirq_pct |-> RoundDiv((b.v[7] - a.v[7]) * 1000, total)])

NET_IFACE == "eth0"

NoCounters == [rx_bytes |-> 0, rx_pkts |-> 0, rx_drop |-> 0, tx_bytes |-> 0, tx_pkts |-> 0, tx_drop |-> 0]

\* lines 68-80: the first line from the third on whose first field is the interface
read_dev_counters(f, iface) ==
    LET r == read_proc(f)
    IN IF ~r.ok THEN Raised
       ELSE LET hits == {i \in 3..Len(r.v) : r.v[i] # <<>> /\ r.v[i][1] = W(iface)}
            IN IF hits = {} THEN Ok(NoCounters)
               ELSE LET parts == r.v[CHOOSE i \in hits : \A j \in hits : i <= j]
                        nums == Tail(parts)
                    IN IF \E i \in 1..Len(nums) : ~IntOk(nums[i]) THEN Raised
                       ELSE IF Len(nums) < 12 THEN Raised
                       ELSE Ok([rx_bytes |-> nums[1].v, rx_pkts |-> nums[2].v, rx_drop |-> nums[4].v,
                                tx_bytes |-> nums[9].v, tx_pkts |-> nums[10].v, tx_drop |-> nums[12].v])

\* position of tok in s, 0 when it is not there
IndexOf(s, tok) ==
    IF \E i \in 1..Len(s) : s[i] = tok
    THEN CHOOSE i \in 1..Len(s) : s[i] = tok /\ \A j \in 1..(i - 1) : s[j] # tok
    ELSE 0

\* lines 106-119: the value under key in the first TcpExt header/value pair holding it
tcp_ext_value(f, key) ==
    LET r == read_proc(f)
        IsExt(line) == line # <<>> /\ line[1] = W("TcpExt:")
    IN IF ~r.ok THEN Raised
       ELSE LET hits == {i \in 1..(Len(r.v) - 1) :
                            /\ i % 2 = 1
                            /\ IsExt(r.v[i]) /\ IsExt(r.v[i + 1])
                            /\ IndexOf(Tail(r.v[i]), W(key)) > 0}
            IN IF hits = {} THEN Ok(0)
               ELSE LET i == CHOOSE i \in hits : \A j \in hits : i <= j
                        idx == IndexOf(Tail(r.v[i]), W(key))
                        values == Tail(r.v[i + 1])
                    IN IF idx > Len(values) THEN Ok(0)
                       ELSE IF ~IntOk(values[idx]) THEN Ok(0)
                       ELSE Ok(values[idx].v)

\* int(text.strip() or 0)
IntOfText(text) ==
    IF Split(text) = <<>> THEN Ok(0)
    ELSE IF Len(Split(text)) > 1 \/ ~IntOk(Split(text)[1]) THEN Raised
    ELSE Ok(Split(text)[1].v)

\* lines 330-336: both reads sit in one try; usage is in tenths of a percent
conntrack_usage_pct(fcount, fmax) ==
    LET rc == read_proc(fcount)
        rm == read_proc(fmax)
        c == IF rc.ok THEN IntOfText(rc.v) ELSE Raised
        m == IF rm.ok THEN IntOfText(rm.v) ELSE Raised
        ct_count == IF c.ok THEN c.v ELSE 0
        ct_max == IF c.ok /\ m.ok THEN m.v ELSE 0
    IN IF ct_max > 0 THEN RoundDiv(ct_count * 1000, ct_max) ELSE 0

\* how a subprocess can end: with status 0, with another status, it cannot be
\* started, or it never exits
ProcEnds == {"exit 0", "exit 1", "not started", "never exits"}

\* lines 38-48: the status run_cmd returns and whether it returns the output;
\* a subprocess that has not exited by the timeout is killed
run_cmd(end) ==
    [rc |-> IF end = "exit 0" THEN 0 ELSE 1,
     out |-> end \in {"exit 0", "exit 1"},
     killed |-> end = "never exits"]

\* lines 323-327: established connections counted from the output of ss
active_conns(rc, nlines) == IF rc = 0 /\ nlines > 1 THEN Max(0, nlines - 1) ELSE 0

----------------------------------------------------------------------------
(* measure_ping: percentiles over the parsed round-trip times *)

\* list.sort(): ascending
RECURSIVE Insert(_, _)
Insert(s, x) ==
    IF s = <<>> THEN <<x>>
    ELSE IF x <= Head(s) THEN <<x>> \o s
    ELSE <<Head(s)>> \o Insert(Tail(s), x)

RECURSIVE Sort(_)
Sort(s) == IF s = <<>> THEN <<>> ELSE Insert(Sort(Tail(s)), Head(s))

\* line 143: int(round((len(times) - 1) * p)), p = p100 / 100; round() takes a tie to even
PctIndex(n, p100) == RoundDiv((n - 1) * p100, 100)

\* lines 140-144, over the sorted list
pct(times, p100) ==
    IF times = <<>> THEN 0
    ELSE times[Min(Max(PctIndex(Len(times), p100), 0), Len(times) - 1) + 1]

\* a probe that parses the output whatever the exit status
measure_ping_any_status(rc, loss_pct, times) ==
    IF times = <<>> THEN [p50 |-> 0, p95 |-> 0, loss |-> loss_pct]
    ELSE [p50 |-> pct(Sort(times), 50), p95 |-> pct(Sort(times), 95), loss |-> loss_pct]

\* lines 122-145: rc and loss_pct come from the ping command, times are the parsed samples
measure_ping(rc, loss_pct, times) ==
    IF rc # 0 THEN [p50 |-> 0, p95 |-> 0, loss |-> 100]
    ELSE IF times = <<>> THEN [p50 |-> 0, p95 |-> 0, loss |-> loss_pct]
    ELSE [p50 |-> pct(Sort(times), 50), p95 |-> pct(Sort(times), 95), loss |-> loss_pct]

----------------------------------------------------------------------------
(* run_loop: one sample of the counters and the heartbeat payload *)

\* the counters the loop keeps from one iteration to the next (lines 245-247, 386-389)
Window(rx_bytes, tx_bytes, rx_pkts, tx_pkts, active_opens, passive_opens) ==
    [rx_bytes |-> rx_bytes, tx_bytes |-> tx_bytes, rx_pkts |-> rx_pkts, tx_pkts |-> tx_pkts,
     active_opens |-> active_opens, passive_opens |-> passive_opens]

NoWindow == Window(0, 0, 0, 0, 0, 0)

\* rates computed whenever a previous window was stored, whatever the clock says
RatesAnyElapsed(last_ts, now, prev, cur) ==
    LET dt == Max(1, now - last_ts)
        bw_rx == RoundDiv((cur.rx_bytes - prev.rx_bytes) * 800, dt * 1000000)
        bw_tx == RoundDiv((cur.tx_bytes - prev.tx_bytes) * 800, dt * 1000000)
        pps_rx == Max(0, TruncDiv(cur.rx_pkts - prev.rx_pkts, dt))
        pps_tx == Max(0, TruncDiv(cur.tx_pkts - prev.tx_pkts, dt))
        delta == (cur.active_opens - prev.active_opens) + (cur.passive_opens - prev.passive_opens)
    IN IF last_ts > 0
       THEN [bw_rx_mbps |-> bw_rx, bw_tx_mbps |-> bw_tx, bw_total_mbps |-> bw_rx + bw_tx,
             pps_rx |-> pps_rx, pps_tx |-> pps_tx, pps_total |-> pps_rx + pps_tx,
             conn_est_rate_s |-> Max(0, TruncDiv(delta, dt))]
       ELSE [bw_rx_mbps |-> 0, bw_tx_mbps |-> 0, bw_total_mbps |-> 0,
             pps_rx |-> 0, pps_tx |-> 0, pps_total |-> 0, conn_est_rate_s |-> 0]

\* lines 303-320, 341-342; bandwidths are in hundredths of a Mbit/s (round(x, 2))
Rates(last_ts, now, prev, cur) ==
    LET dt == Max(1, now - last_ts)
        bw_rx == RoundDiv((cur.rx_bytes - prev.rx_bytes) * 800, dt * 1000000)
        bw_tx == RoundDiv((cur.tx_bytes - prev.tx_bytes) * 800, dt * 1000000)
        pps_rx == Max(0, TruncDiv(cur.rx_pkts - prev.rx_pkts, dt))
        pps_tx == Max(0, TruncDiv(cur.tx_pkts - prev.tx_pkts, dt))
        delta == (cur.active_opens - prev.active_opens) + (cur.passive_opens - prev.passive_opens)
    IN IF last_ts > 0 /\ now > last_ts
       THEN [bw_rx_mbps |-> bw_rx, bw_tx_mbps |-> bw_tx, bw_total_mbps |-> bw_rx + bw_tx,
             pps_rx |-> pps_rx, pps_tx |-> pps_tx, pps_total |-> pps_rx + pps_tx,
             conn_est_rate_s |-> Max(0, TruncDiv(delta, dt))]
       ELSE [bw_rx_mbps |-> 0, bw_tx_mbps |-> 0, bw_total_mbps |-> 0,
             pps_rx |-> 0, pps_tx |-> 0, pps_total |-> 0, conn_est_rate_s |-> 0]

\* what one iteration finds: the files, the clock, and what ss and ping report
World(fault, now, files, ss, ping) ==
    [fault |-> fault, now |-> now, files |-> files, ss |-> ss, ping |-> ping]

NoFault == [src |-> "none", kind |-> "none"]

\* lines 280-344: every source is read; one exception ends run_loop
Collect(w, last_ts, prev) ==
    LET f == w.files
        up == uptime_s(f.uptime)
        ld == load1(f.loadavg)
        mem == meminfo(f.meminfo)
        cpu == cpu_sample(f.stat_a, f.stat_b)
        dev == read_dev_counters(f.dev, NET_IFACE)
        ao == tcp_ext_value(f.netstat, "ActiveOpens")
        po == tcp_ext_value(f.netstat, "PassiveOpens")
        png == measure_ping(w.ping.rc, w.ping.loss, w.ping.times)
    IN IF ~(up.ok /\ ld.ok /\ mem.ok /\ cpu.ok /\ dev.ok /\ ao.ok /\ po.ok) THEN Raised
       ELSE LET cur == Window(dev.v.rx_bytes, dev.v.tx_bytes, dev.v.rx_pkts, dev.v.tx_pkts,
                              ao.v, po.v)
                r == Rates(last_ts, w.now, prev, cur)
            IN Ok([cur |-> cur,
                   payload |->
                     [uptime_s |-> up.v, load1 |-> ld.v,
                      mem_total_mb |-> mem.v.mem_total, mem_free_mb |-> mem.v.mem_free,
                      cpu_total_pct |-> cpu.v.cpu_pct, softirq_pct |-> cpu.v.softirq_pct,
                      bw_rx_mbps |-> r.bw_rx_mbps, bw_tx_mbps |-> r.bw_tx_mbps,
                      bw_total_mbps |-> r.bw_total_mbps,
                      pps_rx |-> r.pps_rx, pps_tx |-> r.pps_tx, pps_total |-> r.pps_total,
                      conn_est_rate_s |-> r.conn_est_rate_s,
                      active_conns |-> active_conns(w.ss.rc, w.ss.nlines),
                      conntrack_usage_pct |-> conntrack_usage_pct(f.ct_count, f.ct_max),
                      rx_dropped |-> dev.v.rx_drop, tx_dropped |-> dev.v.tx_drop,
                      latency_p50_ms |-> png.p50, latency_p95_ms |-> png.p95,
                      packet_loss_pct |-> png.loss]])

NoPayload == [uptime_s |-> -1]

\* what the ping command gave: its exit code, the loss it printed, the times parsed
PingOut(rc, loss, times) == [rc |-> rc, loss |-> loss, times |-> times]
NoPing == PingOut(1, 0, <<>>)

\* no "% packet loss" in the output
NoLoss == -1

\* lines 124, 127-136: the ping command run under run_cmd, and what is parsed
\* from the output it returns
PingRun(end, loss, times) ==
    LET r == run_cmd(end)
    IN PingOut(r.rc,
               IF r.out /\ loss # NoLoss THEN loss ELSE 100,
               IF r.out THEN times ELSE <<>>)

\* line 323: the ss command run under run_cmd
SsRun(end, nlines) ==
    LET r == run_cmd(end)
    IN [rc |-> r.rc, nlines |-> IF r.out THEN nlines ELSE 0]

\* the loop's locals that matter between its steps
Mon(last_ts, prev, now, cur, payload, ping, fault, hb, posts) ==
    [last_ts |-> last_ts, prev |-> prev, now |-> now, cur |-> cur, payload |-> payload,
     ping |-> ping, fault |-> fault, hb |-> hb, posts |-> posts]

MonInit == Mon(0, NoWindow, 0, NoWindow, NoPayload, NoPing, NoFault, "none", 0)

----------------------------------------------------------------------------
(* What the iterations of run_loop find *)

MaxNow == 3          \* latest clock reading, in seconds

ProcFiles(f1, f2, f3, f4, f5, f6, f7, f8, f9) ==
    [uptime |-> f1, loadavg |-> f2, meminfo |-> f3, stat_a |-> f4, stat_b |-> f5,
     dev |-> f6, netstat |-> f7, ct_count |-> f8, ct_max |-> f9]

DevLine(iface, rx_bytes, rx_pkts, tx_bytes, tx_pkts) ==
    <<W(iface), I(rx_bytes), I(rx_pkts), I(0), I(1), I(0), I(0), I(0), I(0),
      I(tx_bytes), I(tx_pkts), I(0), I(2), I(0), I(0), I(0), I(0)>>

\* a healthy /proc whose interface and TCP counters read c
GoodFiles(c) ==
    ProcFiles(
        File(<< <<D(100), D(50)>> >>),
        File(<< <<D(0), D(0), D(0), W("1/100"), I(5)>> >>),
        File(<< <<W("MemTotal:"), I(2048), W("kB")>>, <<W("MemAvailable:"), I(1024), W("kB")>> >>),
        File(<< <<W("cpu"), I(10), I(0), I(10), I(70), I(0), I(0), I(10), I(0)>> >>),
        File(<< <<W("cpu"), I(15), I(0), I(12), I(88), I(0), I(0), I(15), I(0)>> >>),
        File(<< <<W("Inter-|")>>, <<W("face")>>,
                DevLine("lo", 7, 7, 7, 7),
                DevLine(NET_IFACE, c.rx_bytes, c.rx_pkts, c.tx_bytes, c.tx_pkts) >>),
        File(<< <<W("TcpExt:"), W("ActiveOpens"), W("PassiveOpens")>>,
                <<W("TcpExt:"), I(c.active_opens), I(c.passive_opens)>> >>),
        File(<< <<I(10)>> >>),
        File(<< <<I(100)>> >>))

Sources == {"uptime", "loadavg", "meminfo", "stat", "dev", "netstat", "conntrack"}
FaultKinds == {"missing", "empty", "unreadable", "malformed"}
Faults == {[src |-> s, kind |-> k] : s \in Sources, k \in FaultKinds}

\* a malformed content for each source
Malformed(src) ==
    CASE src = "uptime" -> File(<< <<W("up")>> >>)
      [] src = "loadavg" -> File(<< <<>> >>)
      [] src = "meminfo" -> File(<< <<W("MemTotal:"), W("lots")>> >>)
      [] src = "stat" -> File(<< <<W("cpu"), I(10), W("x")>> >>)
      [] src = "dev" -> File(<< <<W("Inter-|")>>, <<W("face")>>, <<W(NET_IFACE), I(1), W("x")>> >>)
      [] src = "netstat" -> File(<< <<W("TcpExt:"), W("ActiveOpens"), W("PassiveOpens")>>,
                                    <<W("TcpExt:"), W("x")>> >>)
      [] src = "conntrack" -> File(<< <<W("x")>> >>)

Faulty(ft) ==
    CASE ft.kind = "missing" -> Missing
      [] ft.kind = "empty" -> File(<<>>)
      [] ft.kind = "unreadable" -> Unreadable
      [] ft.kind = "malformed" -> Malformed(ft.src)

\* files with the one source of ft replaced
FaultyFiles(files, ft) ==
    CASE ft.src = "uptime" -> [files EXCEPT !.uptime = Faulty(ft)]
      [] ft.src = "loadavg" -> [files EXCEPT !.loadavg = Faulty(ft)]
      [] ft.src = "meminfo" -> [files EXCEPT !.meminfo = Faulty(ft)]
      [] ft.src = "stat" -> [files EXCEPT !.stat_a = Faulty(ft), !.stat_b = Faulty(ft)]
      [] ft.src = "dev" -> [files EXCEPT !.dev = Faulty(ft)]
      [] ft.src = "netstat" -> [files EXCEPT !.netstat = Faulty(ft)]
      [] ft.src = "conntrack" -> [files EXCEPT !.ct_max = Faulty(ft)]

\* counter readings: growth from WA to WB, a reset of some counters from WB to WC
WA == Window(250000, 125000, 4, 2, 2, 1)
WB == Window(500000, 250000, 9, 4, 3, 3)
WC == Window(0, 375000, 1, 5, 0, 9)
Windows == {WA, WB, WC}

SsOut == [rc |-> 0, nlines |-> 3]
Pings == {NoPing, PingOut(0, 25, <<30, 10, 20>>)}

\* everything the loop is exposed to
Worlds ==
    {World(NoFault, now, GoodFiles(c), SsOut, p) : now \in 1..MaxNow, c \in Windows, p \in Pings}
    \cup {World(ft, 1, FaultyFiles(GoodFiles(WA), ft), SsOut, NoPing) : ft \in Faults}

\* a quiet host: the same readings every time
QuietWorlds == {World(NoFault, 1, GoodFiles(WA), SsOut, NoPing)}

MaxPing == 4         \* most round-trip times parsed from one ping run

\* a healthy host on which ping answers with any list of times
PingWorlds ==
    {World(NoFault, 1, GoodFiles(WA), SsOut, PingOut(0, 0, t)) :
        t \in SeqsUpTo({10, 20, 30, 40}, MaxPing)}

\* a host with healthy counters whose ss or ping subprocess ends in any way
ProcWorlds ==
    {World([src |-> "ss", kind |-> e], 1, GoodFiles(WA), SsRun(e, 3), NoPing) : e \in ProcEnds}
    \cup {World([src |-> "ping", kind |-> e], 1, GoodFiles(WA), SsOut, PingRun(e, l, t)) :
            e \in ProcEnds, l \in {NoLoss, 25}, t \in {<<>>, <<30, 10, 20>>}}

\* how a heartbeat POST can end (lines 153-158)
HeartbeatOutcomes == {"accepted", "error response", "unreachable", "timeout"}

----------------------------------------------------------------------------
(* The agent loop (run_loop), from its task pull on *)

AgentServerId == "s1"

\* lines 280-344: the sources are read and the payload is built
AgentSample(worlds) ==
    /\ ag.pc = "sample"
    /\ \E w \in worlds :
        LET c == Collect(w, mon.last_ts, mon.prev)
        IN IF c.ok
           THEN /\ mon' = [mon EXCEPT !.now = w.now, !.cur = c.v.cur, !.ping = w.ping,
                                      !.payload = c.v.payload, !.fault = w.fault]
                /\ ag' = [ag EXCEPT !.pc = "heartbeat"]
           ELSE \* the exception leaves run_loop: the agent is gone
                /\ mon' = [mon EXCEPT !.now = w.now, !.fault = w.fault]
                /\ ag' = [ag EXCEPT !.pc = "aborted"]
    /\ UNCHANGED <<disk, last, ops, uniq0, push, queueVars>>

\* a heartbeat step that tries again after a failure
AgentHeartbeatRetry(outcomes) ==
    /\ ag.pc = "heartbeat"
    /\ \E o \in outcomes :
        /\ mon' = [mon EXCEPT !.hb = o, !.posts = @ + 1]
        /\ ag' = [ag EXCEPT !.pc = IF o = "accepted" \/ mon.posts >= 1 THEN "pull" ELSE "heartbeat"]
    /\ UNCHANGED <<disk, last, ops, uniq0, push, queueVars>>

\* lines 346-374, 148-158: one POST, whose outcome is ignored
AgentHeartbeat(outcomes) ==
    /\ ag.pc = "heartbeat"
    /\ \E o \in outcomes : mon' = [mon EXCEPT !.hb = o, !.posts = @ + 1]
    /\ ag' = [ag EXCEPT !.pc = "pull"]
    /\ UNCHANGED <<disk, last, ops, uniq0, push, queueVars>>

\* lines 376-378: the pull is sent and reaches get_tasks
AgentPull ==
    /\ ag.pc = "pull"
    /\ GetTasksSelect("agent", Authorized, AgentServerId)
    /\ ag' = [ag EXCEPT !.pc = "pull_wait"]

\* lines 167-171: the request fails before it reaches the control plane
AgentPullUnreachable ==
    /\ ag.pc = "pull"
    /\ ag' = [ag EXCEPT !.pc = "update"]
    /\ UNCHANGED <<agentVars, queueVars>>

\* lines 167-171: the response is lost or times out: http_get_json returns []
AgentPullLost ==
    /\ ag.pc = "pull_wait"
    /\ hs["agent"].pc = "done"
    /\ ag' = [ag EXCEPT !.pc = "update"]
    /\ UNCHANGED <<agentVars, queueVars>>

\* only the first pulled task is acknowledged
DoneIdsFirstOnly(pulled) ==
    LET withId == SelectSeq(pulled, LAMBDA t : t.task_id # NoTaskId)
    IN IF withId = <<>> THEN <<>> ELSE <<withId[1].task_id>>

\* line 381
DoneIds(pulled) ==
    LET withId == SelectSeq(pulled, LAMBDA t : t.task_id # NoTaskId)
    IN [n \in 1..Len(withId) |-> withId[n].task_id]

\* lines 378-383: the response arrives; a non-empty list is applied at once
AgentPullResponse ==
    /\ ag.pc = "pull_wait"
    /\ hs["agent"].pc = "done"
    /\ LET pulled == IF hs["agent"].code = 200 THEN hs["agent"].body ELSE <<>>
       IN IF pulled # <<>>
          THEN /\ apply_tasks(pulled, "pull")
               /\ ag' = AgentAt(IF DoneIds(pulled) # <<>> THEN "ack" ELSE "update",
                                DoneIds(pulled), 1, <<>>,
                                ag.seen \cup {pulled[n].task_id : n \in 1..Len(pulled)})
          ELSE /\ ag' = [ag EXCEPT !.pc = "update"]
               /\ UNCHANGED <<disk, last, ops>>
    /\ UNCHANGED <<uniq0, push, mon, queueVars>>

\* a pull response as http_get_json returns it: a JSON list with its items, or
\* any other JSON value
Response(list, items) == [list |-> list, items |-> items]

\* responses that are not a list of task objects: an error object, a list
\* holding a value that is not an object, a task without any field
GarbledResponses ==
    {Response(FALSE, <<>>),
     Response(TRUE, <<NotAnObject>>),
     Response(TRUE, <<Task(ADD, KA, NoEmail, 1), NotAnObject>>),
     Response(TRUE, <<EmptyTask>>)}

\* lines 378-383 for a response that did not come from get_tasks as it is.
\* t.get on a value that is not an object raises in apply_tasks (line 195), or
\* in the done_ids comprehension (line 381) when apply_tasks returned at its
\* failed read: either way the exception leaves run_loop
AgentPullGarbled(responses) ==
    /\ ag.pc = "pull_wait"
    /\ hs["agent"].pc = "done"
    /\ \E r \in responses :
          IF r.list /\ r.items # <<>>
          THEN /\ apply_tasks(r.items, "pull")
               /\ ag' = IF ~AllObjects(r.items)
                        THEN [ag EXCEPT !.pc = "aborted"]
                        ELSE AgentAt(IF DoneIds(r.items) # <<>> THEN "ack" ELSE "update",
                                     DoneIds(r.items), 1, <<>>, ag.seen)
          ELSE /\ ag' = [ag EXCEPT !.pc = "update"]
               /\ UNCHANGED <<disk, last, ops>>
    /\ UNCHANGED <<uniq0, push, mon, queueVars>>

\* lines 225-230: the next acknowledgment is posted; its status travels in the body
AgentAck ==
    /\ ag.pc = "ack"
    /\ ag.n <= Len(ag.done_ids)
    /\ \/ \* the request reaches ack_task, which finds no status parameter
          AckSelect("agent", Authorized, ag.done_ids[ag.n], NoParam)
       \/ \* the request fails: swallowed (lines 157-158)
          UNCHANGED <<server_tasks, hs, heartbeats, agentVars>>
    /\ ag' = [ag EXCEPT !.n = @ + 1,
                        !.sent = Append(@, [task_id |-> ag.done_ids[ag.n], status |-> "done"])]

\* a loop that goes on while acknowledgments are still to be sent
AgentAckedEarly ==
    /\ ag.pc = "ack"
    /\ hs["agent"].pc \in {"idle", "done"}
    /\ ag' = [ag EXCEPT !.pc = "update"]
    /\ UNCHANGED <<agentVars, queueVars>>

\* the acknowledgments are over
AgentAcked ==
    /\ ag.pc = "ack"
    /\ ag.n > Len(ag.done_ids)
    /\ hs["agent"].pc \in {"idle", "done"}
    /\ ag' = [ag EXCEPT !.pc = "update"]
    /\ UNCHANGED <<agentVars, queueVars>>

\* an iteration end that keeps the old window when the heartbeat was not accepted
AgentNextIterationKeepWindow ==
    /\ ag.pc = "update"
    /\ ag' = AgentAt("sample", <<>>, 0, <<>>, ag.seen)
    /\ mon' = IF mon.hb = "accepted"
              THEN Mon(mon.now, mon.cur, 0, NoWindow, NoPayload, NoPing, NoFault, "none", 0)
              ELSE Mon(mon.last_ts, mon.prev, 0, NoWindow, NoPayload, NoPing, NoFault, "none", 0)
    /\ last' = [last EXCEPT !["pull"] = NoEffects]
    /\ UNCHANGED <<disk, ops, uniq0, push, queueVars>>

\* lines 385-391: the iteration ends; after the sleep the next one starts
AgentNextIteration ==
    /\ ag.pc = "update"
    /\ ag' = AgentAt("sample", <<>>, 0, <<>>, ag.seen)
    /\ mon' = Mon(mon.now, mon.cur, 0, NoWindow, NoPayload, NoPing, NoFault, "none", 0)
    /\ last' = [last EXCEPT !["pull"] = NoEffects]
    /\ UNCHANGED <<disk, ops, uniq0, push, queueVars>>

run_loop(worlds, outcomes) ==
    \/ AgentSample(worlds) \/ AgentHeartbeat(outcomes)
    \/ AgentPull \/ AgentPullUnreachable \/ AgentPullLost \/ AgentPullResponse
    \/ AgentAck \/ AgentAcked \/ AgentNextIteration

----------------------------------------------------------------------------
(* Control plane: heartbeat ingestion (receive_heartbeat) *)

\* timestamps as tokens: a date and time, then what follows it
DateTime == "2026-01-01T00:00:00"
Timestamps ==
    {<<DateTime, "Z">>, <<DateTime, "+00:00">>, <<DateTime>>, <<"yesterday">>, <<>>,
     <<DateTime, "Z", "Z">>}

\* str.replace('Z', '+00:00')
ReplaceZ(ts) == [i \in 1..Len(ts) |-> IF ts[i] = "Z" THEN "+00:00" ELSE ts[i]]

\* datetime.fromisoformat: a date and time, with or without an offset
fromisoformat(ts) ==
    IF ts \in {<<DateTime>>, <<DateTime, "+00:00">>} THEN Ok(ts) ELSE Raised

\* datetime_utils.py line 22
parse_timestamp(timestamp_str) == fromisoformat(ReplaceZ(timestamp_str))

HeartbeatRequest(server_id, generated_at, ready_at) ==
    [server_id |-> server_id, generated_at |-> generated_at, ready_at |-> ready_at]

\* heartbeat commits in progress
Storing == {c \in Clients : hs[c].pc = "commit" /\ hs[c].op = "heartbeat"}

\* api.py lines 32-75: receive_heartbeat up to its commit.  The HTTPException
\* with status 400 of line 46 is raised inside the try of line 40, whose
\* `except Exception` (line 91) catches it and raises status 500 in its place.
HeartbeatCheck(c, auth, heartbeat_data) ==
    /\ Free(c)
    /\ Len(heartbeats) + Cardinality(Storing) < MaxBeats
    /\ LET generated_at == parse_timestamp(heartbeat_data.generated_at)
           ready_at == parse_timestamp(heartbeat_data.ready_at)
       IN hs' = [hs EXCEPT ![c] =
            IF ~VerifyToken(auth) THEN Done("heartbeat", 401, <<>>)
            ELSE IF heartbeat_data.server_id = "" THEN Done("heartbeat", 422, <<>>)
            ELSE IF ~generated_at.ok \/ ~ready_at.ok THEN Done("heartbeat", 500, <<>>)
            ELSE [op |-> "heartbeat", pc |-> "commit",
                  row |-> HeartbeatRequest(heartbeat_data.server_id, generated_at.v, ready_at.v)]]
    /\ UNCHANGED <<server_tasks, heartbeats, agentVars, ag>>

\* how storing the record can end: stored and read back, the commit raises,
\* or the commit succeeds and reading the record back raises
StoreOutcomes == {"ok", "commit failed", "refresh failed"}

\* api.py lines 77-93: the record is stored and its id returned, or the
\* exception is answered with status 500
HeartbeatCommit(c) ==
    /\ hs[c].pc = "commit" /\ hs[c].op = "heartbeat"
    /\ \E o \in StoreOutcomes :
          /\ heartbeats' = IF o = "commit failed" THEN heartbeats
                           ELSE Append(heartbeats, hs[c].row)
          /\ hs' = [hs EXCEPT ![c] =
                     IF o = "ok" THEN Done("heartbeat", 200, <<Len(heartbeats) + 1>>)
                     ELSE Done("heartbeat", 500, <<>>)]
    /\ UNCHANGED <<server_tasks, agentVars, ag>>

\* Authorization headers requests carry
Headers ==
    {Authorized, NoHeader, <<"Basic", SP, "secret">>, <<"bearer", SP, "secret">>,
     Bearer(S("guess")), Bearer(<<"secret", "x">>), <<"secret">>}

Beats ==
    {HeartbeatRequest("s1", g, <<DateTime, "Z">>) : g \in Timestamps}
    \cup {HeartbeatRequest("s1", <<DateTime>>, <<"yesterday">>),
          HeartbeatRequest("", <<DateTime, "Z">>, <<DateTime, "Z">>)}

\* POST /heartbeat
receive_heartbeat(cs, headers, beats) ==
    \E c \in cs, h \in headers, b \in beats : HeartbeatCheck(c, h, b)

----------------------------------------------------------------------------

\* a second inbound beside the first vless one
OtherInbounds ==
    { Inbound("vmess", <<Entry(KA, NoEmail)>>),
      Inbound("vless", <<>>),
      Inbound("vless", <<Entry(KB, NoEmail), Entry(KA, NoEmail)>>) }

InitConfigs == {<<Inbound("vless", c1), b2>> : c1 \in InitClients, b2 \in OtherInbounds}

InitApply ==
    /\ disk \in InitConfigs
    /\ last = [c \in Callers |-> NoEffects]
    /\ ops = [k \in Keys |-> <<>>]
    /\ uniq0 = [i \in 1..Len(disk) |-> Unique(disk[i].clients)]
    /\ push = PushIdle
    /\ server_tasks = <<>>
    /\ heartbeats = <<>>
    /\ hs = [c \in Clients |-> Idle]
    /\ ag = AgentIdle
    /\ mon = MonInit

NextApply == handle_command(Payloads)

SpecApply == InitApply /\ [][NextApply]_vars

\* the local listener alone, offered payloads of every shape
NextPush == handle_command(PushPayloads)

SpecPush == InitApply /\ [][NextPush]_vars

\* the control plane alone, with any clients
InitQueue ==
    /\ disk = <<Inbound("vless", <<>>)>>
    /\ last = [c \in Callers |-> NoEffects]
    /\ ops = [k \in Keys |-> <<>>]
    /\ uniq0 = <<TRUE>>
    /\ push = PushIdle
    /\ server_tasks = <<>>
    /\ heartbeats = <<>>
    /\ hs = [c \in Clients |-> Idle]
    /\ ag = AgentIdle
    /\ mon = MonInit

NextQueue ==
    \/ add_key(Operators, {"s1"}, {KA, <<SP, "a">>})
    \/ remove_key(Operators, {"s1", "s2"}, {KA})
    \/ get_tasks(Operators, {"s1", "s2", ""})
    \/ ack_task(Operators, AckStatuses)
    \/ Commit(Operators)

SpecQueue == InitQueue /\ [][NextQueue]_vars

\* the control plane serving one request at a time
NextQueueSeq ==
    \/ add_key({"op1"}, {"s1"}, {KA, <<SP, "a">>})
    \/ remove_key({"op1"}, {"s1", "s2"}, {KA})
    \/ get_tasks({"op1"}, {"s1", "s2", ""})
    \/ ack_task({"op1"}, AckStatuses)
    \/ Commit({"op1"})

SpecQueueSeq == InitQueue /\ [][NextQueueSeq]_vars

\* operators creating tasks with any key identifier for any server
KeyInputs == {KA, S("zz"), <<SP, "a">>, <<SP>>, K0x}
ServerInputs == {"s1", "s2", "s3"}

NextCreate ==
    \/ add_key(Operators, ServerInputs, KeyInputs)
    \/ remove_key(Operators, ServerInputs, KeyInputs)
    \/ \E c \in Operators : CreateCommit(c)

SpecCreate == InitQueue /\ [][NextCreate]_vars

\* the control plane with every route of the agent and of operators, under
\* any Authorization header, serving one request at a time
NextControl ==
    \/ \E c \in {"op1"}, h \in Headers : AddKeyCheck(c, h, "s1", NoEmail, KA)
    \/ \E c \in {"op1"}, h \in Headers : RemoveKeyCheck(c, h, "s1", KB)
    \/ \E c \in {"op1"}, h \in Headers : GetTasksSelect(c, h, "s1") /\ UNCHANGED ag
    \/ \E c \in {"op1"}, h \in Headers, t \in 1..MaxTasks :
          AckSelect(c, h, t, "done") /\ UNCHANGED ag
    \/ receive_heartbeat({"op1"}, Headers, Beats)
    \/ Commit({"op1"})
    \/ \E c \in {"op1"} : HeartbeatCommit(c)

SpecControl == InitQueue /\ [][NextControl]_vars

\* the agent with its command listener on a host whose subprocesses end in
\* any way, against a control plane that holds no task
ProcPayloads ==
    {[shape |-> "object", tasks |-> <<Task(ADD, KA, NoEmail, NoTaskId)>>],
     [shape |-> "object", tasks |-> <<Task(DEL, KB, NoEmail, NoTaskId)>>],
     [shape |-> "scalar", tasks |-> <<>>]}

Hung == push.pc = "hung"

InitProc ==
    /\ disk = <<Inbound("vless", <<Entry(KB, NoEmail)>>)>>
    /\ last = [c \in Callers |-> NoEffects]
    /\ ops = [k \in Keys |-> <<>>]
    /\ uniq0 = <<TRUE>>
    /\ push = PushIdle
    /\ server_tasks = <<>>
    /\ heartbeats = <<>>
    /\ hs = [c \in Clients |-> Idle]
    /\ ag = AgentIdle
    /\ mon = MonInit

\* a request stuck in apply_tasks holds the event loop: no step of run_loop runs
NextProc ==
    \/ handle_command(ProcPayloads)
    \/ CommandHangs
    \/ ~Hung /\ AgentSample(ProcWorlds)
    \/ ~Hung /\ AgentHeartbeat({"accepted"})
    \/ ~Hung /\ AgentPull
    \/ ~Hung /\ AgentPullUnreachable
    \/ ~Hung /\ AgentPullLost
    \/ ~Hung /\ AgentPullResponse
    \/ GetTasksCommit("agent")
    \/ ~Hung /\ AgentNextIteration

SpecProc == InitProc /\ [][NextProc]_vars

\* the agent loop on a host whose counters, clock and network misbehave,
\* against a control plane that holds no task
NextLoop ==
    \/ AgentSample(Worlds)
    \/ AgentHeartbeat(HeartbeatOutcomes)
    \/ AgentPull \/ AgentPullUnreachable \/ AgentPullLost \/ AgentPullResponse
    \/ GetTasksCommit("agent")
    \/ AgentNextIteration

SpecLoop == InitQueue /\ [][NextLoop]_vars

\* one sample of the loop, for the latency percentiles
NextPing == AgentSample(PingWorlds)

SpecPing == InitQueue /\ [][NextPing]_vars

\* the agent loop against the control plane, with an operator creating tasks
KeepsB == <<Entry(KB, NoEmail)>>

Init ==
    /\ disk \in {<<Inbound("vless", KeepsB)>>,
                 <<Inbound("vless", KeepsB), Inbound("vless", <<>>)>>}
    /\ last = [c \in Callers |-> NoEffects]
    /\ ops = [k \in Keys |-> <<>>]
    /\ uniq0 = [i \in 1..Len(disk) |-> Unique(disk[i].clients)]
    /\ push = PushIdle
    /\ server_tasks = <<>>
    /\ heartbeats = <<>>
    /\ hs = [c \in Clients |-> Idle]
    /\ ag = AgentIdle
    /\ mon = MonInit

Next ==
    \/ add_key({"op1"}, {"s1"}, {KA})
    \/ remove_key({"op1"}, {"s1"}, {KB})
    \/ ack_task({"op1"}, {"done"})
    \/ Commit(Clients)
    \/ run_loop(QuietWorlds, {"accepted"})

Spec == Init /\ [][Next]_vars

\* the agent loop against a control plane whose pull responses may reach it
\* garbled
NextGarbled ==
    \/ add_key({"op1"}, {"s1"}, {KA})
    \/ CreateCommit("op1") \/ GetTasksCommit("agent")
    \/ AgentSample(QuietWorlds) \/ AgentHeartbeat({"accepted"})
    \/ AgentPull \/ AgentPullUnreachable \/ AgentPullLost \/ AgentPullResponse
    \/ AgentPullGarbled(GarbledResponses)
    \/ AgentAck \/ AgentAcked \/ AgentNextIteration

SpecGarbled == Init /\ [][NextGarbled]_vars

\* the agent loop and the local command listener side by side
BothPayloads ==
    {[shape |-> "tasks", tasks |-> <<Task(DEL, KA, NoEmail, NoTaskId)>>],
     [shape |-> "object", tasks |-> <<Task(ADD, KB, NoEmail, NoTaskId)>>],
     [shape |-> "scalar", tasks |-> <<>>]}

NextBoth ==
    \/ add_key({"op1"}, {"s1"}, {KA})
    \/ remove_key({"op1"}, {"s1"}, {KB})
    \/ CreateCommit("op1") \/ GetTasksCommit("agent")
    \/ run_loop(QuietWorlds, {"accepted"})
    \/ handle_command(BothPayloads)

InitBoth ==
    /\ disk = <<Inbound("vless", KeepsB), Inbound("vless", <<>>)>>
    /\ last = [c \in Callers |-> NoEffects]
    /\ ops = [k \in Keys |-> <<>>]
    /\ uniq0 = [i \in 1..Len(disk) |-> Unique(disk[i].clients)]
    /\ push = PushIdle
    /\ server_tasks = <<>>
    /\ heartbeats = <<>>
    /\ hs = [c \in Clients |-> Idle]
    /\ ag = AgentIdle
    /\ mon = MonInit

SpecBoth == InitBoth /\ [][NextBoth]_vars

----------------------------------------------------------------------------
(* Claims about the config mutator *)

AddA == Task(ADD, <<SP, "a", SP>>, NoEmail, NoTaskId)
DelA == Task(DEL, KA, NoEmail, NoTaskId)

LastOp(k) == IF ops[k] = <<>> THEN <<>> ELSE ops[k][Len(ops[k])]

\* C1: add_key is idempotent.  On every vless listener that initially held each
\* id at most once, after any sequence of batches that reached the file, every
\* key is held at most once, and exactly once when add_key was the last
\* add_key/del_key task that took effect for it.
C1_AddKeyIdempotent ==
    \A i \in 1..Len(disk) : \A k \in Keys :
        IsVless(disk[i]) /\ uniq0[i] =>
            /\ Count(disk[i].clients, k) <= 1
            /\ LastOp(k) = ADD => Count(disk[i].clients, k) = 1

\* add_key(a) was delivered twice, in two batches, to a listener that did not hold a
C1_Witness ==
    /\ uniq0[1]
    /\ ops[KA] = <<ADD, ADD>>
    /\ Called("push") /\ Took(last["push"])
    /\ last["push"].tasks = <<AddA>>
    /\ Count(last["push"].before[1].clients, KA) = 1
    /\ Count(disk[1].clients, KA) = 1

\* a del_key task naming a key no vless listener of cfg holds
DelOfAbsent(t, cfg) ==
    /\ Strip(t.type) = DEL
    /\ Strip(t.id) # <<>>
    /\ \A i \in VlessInbounds(cfg) : Count(cfg[i].clients, Strip(t.id)) = 0

\* C2: del_key of a key that no vless listener holds is a no-op: the entries are
\* unchanged, no change is reported, the file is not written, and neither reload
\* nor restart is triggered.
C2_DelAbsentNoop ==
    \A c \in Callers :
        ( /\ Called(c)
          /\ last[c].tasks # <<>>
          /\ \A n \in 1..Len(last[c].tasks) : DelOfAbsent(last[c].tasks[n], last[c].before) )
        => /\ last[c].mem = last[c].before
           /\ ~last[c].changed
           /\ last[c].writes = 0 /\ last[c].reloads = 0 /\ last[c].restarts = 0
           /\ (c = "push" => disk = last[c].before)

C2_Witness ==
    /\ Called("push") /\ last["push"].readOk
    /\ last["push"].tasks = <<DelA>>
    /\ DelOfAbsent(DelA, last["push"].before)
    /\ Count(last["push"].before[1].clients, KB) = 1

\* C3: add_key(K) followed by del_key(K), in one batch or in successive batches,
\* leaves no entry with id K on any vless listener, whatever it held before.
C3_AddThenDelLeavesNone ==
    \A k \in Keys :
        ops[k] = <<ADD, DEL>> =>
            \A i \in VlessInbounds(disk) : Count(disk[i].clients, k) = 0

\* two successive batches, add then del, on a listener that held a twice
C3_Witness ==
    /\ ops[KA] = <<ADD, DEL>>
    /\ ~uniq0[1]
    /\ Called("push") /\ Took(last["push"])
    /\ last["push"].tasks = <<DelA>>
    /\ Count(last["push"].before[1].clients, KA) = 2
    /\ Count(disk[1].clients, KA) = 0

\* C4: redelivery is harmless: applying the batch again to the list it produced
\* yields the same entries on every listener.
C4_RedeliveryHarmless ==
    \A c \in Callers :
        Called(c) /\ last[c].readOk =>
            SameLists(Mutate(last[c].mem, last[c].tasks).cfg, last[c].mem)

\* a batch that changed the list, and whose second application mutates again
C4_Witness ==
    /\ Called("push") /\ last["push"].readOk /\ last["push"].changed
    /\ Len(last["push"].tasks) = 2
    /\ Mutate(last["push"].mem, last["push"].tasks).changed

\* C5: a batch that leaves every listener's entries as they were causes no write,
\* no reload and no restart.  (Stated for batches that leave the lists exactly
\* as they were, order included.)
C5_NoopDetection ==
    \A c \in Callers :
        Called(c) /\ last[c].readOk /\ last[c].mem = last[c].before =>
            last[c].writes = 0 /\ last[c].reloads = 0 /\ last[c].restarts = 0

----------------------------------------------------------------------------
(* Claims about the end-to-end reconcile *)

Ids(clients) == {clients[i].id : i \in 1..Len(clients)}

\* C6: a pulled batch [add_key K1, del_key K2] against a listener holding exactly
\* {K2} that is read and written without error leaves the listener as {K1}, with
\* one write of the file and one reload for the whole batch; and for every pulled
\* batch the agent sends exactly one "done" acknowledgment per pulled task id,
\* none before the batch was applied.
C6_EndToEndReconcile ==
    LET e == last["pull"]
    IN /\ ( /\ Called("pull") /\ Took(e)
            /\ Len(e.tasks) = 2
            /\ Strip(e.tasks[1].type) = ADD /\ Strip(e.tasks[2].type) = DEL
            /\ Strip(e.tasks[1].id) # Strip(e.tasks[2].id) )
          => \A i \in VlessInbounds(e.before) :
                Ids(e.before[i].clients) = {Strip(e.tasks[2].id)} =>
                    /\ Ids(e.mem[i].clients) = {Strip(e.tasks[1].id)}
                    /\ Count(e.mem[i].clients, Strip(e.tasks[1].id)) = 1
                    /\ e.writes = 1 /\ e.reloads = 1 /\ e.restarts <= 1
       /\ (ag.sent # <<>> \/ ag.pc = "ack") => Called("pull")
       /\ \A n \in 1..Len(ag.sent) : ag.sent[n].status = "done"
       /\ Called("pull") =>
            \A n \in 1..Len(e.tasks) :
                Cardinality({m \in 1..Len(ag.sent) : ag.sent[m].task_id = e.tasks[n].task_id})
                    = IF ag.pc = "update" \/ n < ag.n THEN 1 ELSE 0
       /\ Called("pull") /\ ag.pc = "update" => Len(ag.sent) = Len(e.tasks)

C6_Witness ==
    /\ ag.pc = "update"
    /\ Called("pull") /\ Took(last["pull"])
    /\ last["pull"].tasks = <<Task(ADD, KA, S("e"), 1), Task(DEL, KB, NoEmail, 2)>>
    /\ last["pull"].before[1].clients = KeepsB
    /\ disk[1].clients = <<Entry(KA, S("e"))>>
    /\ last["pull"].writes = 1 /\ last["pull"].reloads = 1
    /\ ag.sent = <<[task_id |-> 1, status |-> "done"], [task_id |-> 2, status |-> "done"]>>

----------------------------------------------------------------------------
(* Claims about the task queue *)

SameTriple(i, j) ==
    /\ server_tasks[i].server_id = server_tasks[j].server_id
    /\ server_tasks[i].key_id = server_tasks[j].key_id
    /\ server_tasks[i].type = server_tasks[j].type

IsActive(i) == server_tasks[i].status \in {"pending", "delivered"}

\* C7: at most one pending or delivered task exists for a given
\* {server_id, key_id, kind}.
C7_NoDuplicateActive ==
    \A i, j \in 1..Len(server_tasks) :
        IsActive(i) /\ IsActive(j) /\ SameTriple(i, j) => i = j

\* C8: done and failed are terminal: a task in one of them keeps its status.
C8_TerminalStatuses ==
    [][\A i \in 1..Len(server_tasks) :
          server_tasks[i].status \in {"done", "failed"} =>
              server_tasks'[i].status = server_tasks[i].status]_vars

\* the step is the commit of a pull that selected row i
PullCommits(i) ==
    \E c \in Clients :
        /\ hs[c].pc = "commit" /\ hs[c].op = "get_tasks"
        /\ \E n \in 1..Len(hs[c].sel) : hs[c].sel[n] = i
        /\ hs'[c].pc = "done"

\* the step is the commit of an acknowledgment of row i
AckCommits(i) ==
    \E c \in Clients :
        /\ hs[c].pc = "commit" /\ hs[c].op = "ack_task"
        /\ hs[c].task_id = i
        /\ hs'[c].pc = "done"

\* C9: a task becomes delivered only by a pull and only from pending, and done or
\* failed only by an acknowledgment and only from delivered.
C9_TransitionsInOrder ==
    [][\A i \in 1..Len(server_tasks) :
          server_tasks'[i].status # server_tasks[i].status =>
              /\ server_tasks'[i].status \in {"delivered", "done", "failed"}
              /\ server_tasks'[i].status = "delivered" =>
                    server_tasks[i].status = "pending" /\ PullCommits(i)
              /\ server_tasks'[i].status \in {"done", "failed"} =>
                    server_tasks[i].status = "delivered" /\ AckCommits(i)]_vars

\* the step starts a pull: get_tasks runs its query
PullStarts(c) ==
    /\ Free(c)
    /\ hs'[c].op = "get_tasks"
    /\ hs'[c] # hs[c]

\* C10: a delivered task is not selected by any pull whose query runs after the
\* delivery, and it stays delivered until an acknowledgment of it is committed:
\* nothing else (no pull, no creation request, no lost response, no passing of
\* time) changes its status.
C10_AtMostOnceDelivery ==
    [][\A i \in 1..Len(server_tasks) :
          server_tasks[i].status = "delivered" =>
              /\ \A c \in Clients :
                    PullStarts(c) =>
                        /\ hs'[c].pc = "commit" =>
                              \A n \in 1..Len(hs'[c].sel) : hs'[c].sel[n] # i
                        /\ hs'[c].pc = "done" =>
                              \A n \in 1..Len(hs'[c].body) : hs'[c].body[n].task_id # i
              /\ \A c \in Clients :
                    hs[c].pc = "commit" /\ hs[c].op = "get_tasks" /\ hs'[c].pc = "done"
                    /\ (\A n \in 1..Len(hs[c].sel) : hs[c].sel[n] # i) =>
                        \A n \in 1..Len(hs'[c].body) : hs'[c].body[n].task_id # i
              /\ server_tasks'[i].status # "delivered" => AckCommits(i)]_vars

\* task 1 was delivered by a pull whose response never reached the agent, and a
\* later pull of the agent has come back without it
C10_Witness ==
    /\ Len(server_tasks) >= 1
    /\ server_tasks[1].status = "delivered"
    /\ 1 \notin ag.seen
    /\ ag.pc = "pull_wait"
    /\ hs["agent"] = Done("get_tasks", 200, <<>>)

----------------------------------------------------------------------------
(* Claims about pulls and acknowledgments at the control plane *)

PendingRows(server_id) ==
    {i \in 1..Len(server_tasks) :
        server_tasks[i].server_id = server_id /\ server_tasks[i].status = "pending"}

Ascending(sel) == \A m, n \in 1..Len(sel) : m < n => sel[m] < sel[n]

\* c's pull runs its query in this step
PullQueries(c) == hs[c].pc # "commit" /\ hs'[c].pc = "commit" /\ hs'[c].op = "get_tasks"

\* c's pull commits and answers in this step
PullAnswers(c) == hs[c].pc = "commit" /\ hs[c].op = "get_tasks" /\ hs'[c].pc = "done"

\* C11: a pull for server S selects exactly the rows pending for S when its query
\* runs, in ascending id order; its commit marks exactly those rows delivered,
\* changes nothing else of any row, and answers with their type, key, email and
\* id in that order; a pull with a missing or empty server_id answers 200 with
\* an empty list and changes no row.
C11_PullReturnsPending ==
    [][\A c \in Clients :
        /\ PullQueries(c) =>
              /\ hs'[c].server_id # ""
              /\ {hs'[c].sel[n] : n \in 1..Len(hs'[c].sel)} = PendingRows(hs'[c].server_id)
              /\ Ascending(hs'[c].sel)
              /\ server_tasks' = server_tasks
        /\ PullAnswers(c) =>
              LET sel == hs[c].sel
                  ids == {sel[n] : n \in 1..Len(sel)}
              IN /\ hs'[c].code = 200
                 /\ Len(hs'[c].body) = Len(sel)
                 /\ \A n \in 1..Len(sel) :
                        hs'[c].body[n] = [type |-> server_tasks[sel[n]].type,
                                          id |-> server_tasks[sel[n]].key_id,
                                          email |-> server_tasks[sel[n]].email,
                                          task_id |-> sel[n]]
                 /\ Len(server_tasks') = Len(server_tasks)
                 /\ \A i \in 1..Len(server_tasks) :
                        IF i \in ids
                        THEN server_tasks'[i] = [server_tasks[i] EXCEPT !.status = "delivered"]
                        ELSE server_tasks'[i] = server_tasks[i]
        /\ GetTasksSelect(c, Authorized, "") =>
              hs'[c] = Done("get_tasks", 200, <<>>) /\ server_tasks' = server_tasks]_vars

\* a pull answered with two tasks of one server while both were pending
C11_Witness ==
    \E c \in Clients :
        /\ hs[c].op = "get_tasks" /\ hs[c].pc = "done"
        /\ Len(hs[c].body) = 2
        /\ hs[c].body[1].task_id = 1 /\ hs[c].body[2].task_id = 2

\* c's request was answered with an error and has nothing left to commit
Rejected(c) == hs'[c].pc = "done" /\ hs'[c].code \in {400, 404, 422} /\ server_tasks' = server_tasks

\* C12 as stated: an acknowledgment naming an unknown task id, or a status that
\* is not the string done or the string failed, is rejected and changes no status.
C12_AckRejectsInvalid ==
    [][\A c \in Clients, t \in 1..MaxTasks, st \in AckStatuses :
        /\ AckSelect(c, Authorized, t, st)
        /\ (t \notin 1..Len(server_tasks) \/ st \notin {"done", "failed"})
        => Rejected(c)]_vars

\* C12 amended: an acknowledgment naming an unknown task id, or a status that is
\* neither done nor failed in any letter case, is rejected (404, 400) and no
\* task's status changes, then or later on behalf of that request.
C12_AckRejectsInvalidAnyCase ==
    [][\A c \in Clients, t \in 1..MaxTasks, st \in AckStatuses :
        /\ AckSelect(c, Authorized, t, st)
        /\ (t \notin 1..Len(server_tasks) \/ st \notin {"done", "failed", "DONE"})
        => Rejected(c)]_vars

\* an acknowledgment of an existing task was answered 400 while the task stayed delivered
C12_Witness ==
    \E c \in Clients :
        /\ hs[c].op = "ack_task" /\ hs[c].pc = "done" /\ hs[c].code = 400
        /\ Len(server_tasks) >= 1 /\ server_tasks[1].status = "delivered"

\* C13: every acknowledgment the agent sends for a pulled and applied task, once
\* it has reached ack_task and been answered, was accepted (200) and the task
\* it names has status done.
C13_AckTakesEffect ==
    (ag.pc = "ack" /\ ag.sent # <<>> /\ hs["agent"].op = "ack_task" /\ hs["agent"].pc = "done")
        => /\ hs["agent"].code = 200
           /\ server_tasks[ag.sent[Len(ag.sent)].task_id].status = "done"

----------------------------------------------------------------------------
(* Claims about the heartbeat and the metrics of the agent loop *)

\* the iteration has its sample and payload
Sampled == ag.pc \in {"heartbeat", "pull", "pull_wait", "ack", "update"}

\* the heartbeat of the iteration has been posted
Posted == ag.pc \in {"pull", "pull_wait", "ack", "update"}

\* C14: a heartbeat POST that ends in an error response, an unreachable endpoint
\* or a timeout does not end the loop, is the only POST of the payload in its
\* iteration (no retry, nothing kept for later), and the loop goes on to the
\* task pull of the same iteration.
C14_HeartbeatFailureSwallowed ==
    [][/\ (ag.pc = "heartbeat" /\ mon' # mon /\ mon'.hb # "accepted")
            => (ag'.pc = "pull" /\ mon'.posts = 1 /\ mon'.last_ts = mon.last_ts)
       /\ (ag.pc = "pull" /\ ag'.pc # "pull")
            => (ag'.pc \in {"pull_wait", "update"} /\ mon' = mon)]_vars

\* the heartbeat timed out and the pull request of the same iteration is being served
C14_Witness ==
    /\ mon.hb = "timeout" /\ mon.posts = 1
    /\ ag.pc = "pull_wait" /\ hs["agent"].op = "get_tasks"

\* the zero value of the metrics read from src
ZeroOf(src) ==
    CASE src = "uptime" -> mon.payload.uptime_s = 0
      [] src = "loadavg" -> mon.payload.load1 = D(0)
      [] src = "meminfo" -> mon.payload.mem_total_mb = 0 /\ mon.payload.mem_free_mb = 0
      [] src = "stat" -> mon.payload.cpu_total_pct = 0 /\ mon.payload.softirq_pct = 0
      [] src = "dev" -> /\ mon.payload.rx_dropped = 0 /\ mon.payload.tx_dropped = 0
                        /\ mon.cur.rx_bytes = 0 /\ mon.cur.tx_bytes = 0
                        /\ mon.cur.rx_pkts = 0 /\ mon.cur.tx_pkts = 0
      [] src = "netstat" -> mon.cur.active_opens = 0 /\ mon.cur.passive_opens = 0
      [] src = "conntrack" -> mon.payload.conntrack_usage_pct = 0

\* C15: when one counter source is missing, empty, unreadable or malformed, the
\* loop is not aborted, the metrics of that source have their zero value, and
\* the heartbeat of the iteration is posted.
C15_SourceFailureTolerated ==
    mon.fault.src # "none" =>
        /\ ag.pc # "aborted"
        /\ Sampled => ZeroOf(mon.fault.src)
        /\ Posted => mon.posts = 1

\* C16: no reported rate is negative, and the rate of a counter that went
\* backwards between two samples is 0.
C16_RatesNonNegative ==
    Sampled =>
        /\ mon.payload.bw_rx_mbps >= 0 /\ mon.payload.bw_tx_mbps >= 0
        /\ mon.payload.pps_rx >= 0 /\ mon.payload.pps_tx >= 0
        /\ mon.payload.conn_est_rate_s >= 0
        /\ mon.cur.rx_bytes < mon.prev.rx_bytes => mon.payload.bw_rx_mbps = 0
        /\ mon.cur.tx_bytes < mon.prev.tx_bytes => mon.payload.bw_tx_mbps = 0
        /\ mon.cur.rx_pkts < mon.prev.rx_pkts => mon.payload.pps_rx = 0
        /\ mon.cur.tx_pkts < mon.prev.tx_pkts => mon.payload.pps_tx = 0

\* C17: on the first iteration, and whenever the clock reads what it read when
\* the previous window was stored, all seven rate fields of the payload are 0
\* and the iteration is not aborted.
C17_NoWindowNoRates ==
    (mon.fault.src = "none" /\ ag.pc # "sample" /\ (mon.last_ts = 0 \/ mon.now = mon.last_ts)) =>
        /\ Sampled
        /\ mon.payload.bw_rx_mbps = 0 /\ mon.payload.bw_tx_mbps = 0
        /\ mon.payload.bw_total_mbps = 0
        /\ mon.payload.pps_rx = 0 /\ mon.payload.pps_tx = 0 /\ mon.payload.pps_total = 0
        /\ mon.payload.conn_est_rate_s = 0

\* a later iteration whose clock has not moved although every counter has
C17_Witness ==
    /\ Sampled /\ mon.fault.src = "none"
    /\ mon.last_ts > 0 /\ mon.now = mon.last_ts
    /\ mon.prev = WA /\ mon.cur = WB

\* index round(p * (n - 1)) with a tie rounded upwards, clamped to 0..n-1
PctIndexHalfUp(n, p100) == Min(Max(((n - 1) * p100 * 2 + 100) \div 200, 0), n - 1)

\* C18: for every non-empty list of parsed times, p50 and p95 are the elements
\* of the ascending list at index round(p * (n - 1)), round taking a tie upwards.
C18_PercentileHalfUp ==
    (Sampled /\ mon.ping.rc = 0 /\ mon.ping.times # <<>>) =>
        LET sorted == Sort(mon.ping.times)
            n == Len(sorted)
        IN /\ mon.payload.latency_p50_ms = sorted[PctIndexHalfUp(n, 50) + 1]
           /\ mon.payload.latency_p95_ms = sorted[PctIndexHalfUp(n, 95) + 1]

----------------------------------------------------------------------------
(* Claims about the config file under the two callers of apply_tasks *)

\* key k is held by every vless listener of the file / by none
OnAll(k) == \A i \in VlessInbounds(disk) : Count(disk[i].clients, k) >= 1
OnNone(k) == \A i \in VlessInbounds(disk) : Count(disk[i].clients, k) = 0

\* C19: the push listener's and the main loop's calls of apply_tasks never
\* interleave.  Whenever the file changes, one call did it, having read the
\* file exactly as it was before that change and having written what it
\* computed from it; so after any interleaving of pushed and pulled batches
\* the file holds every key whose last applied task was add_key and no key
\* whose last applied task was del_key: no update is lost.
C19_NoLostUpdate ==
    /\ [](\A k \in Keys : (LastOp(k) = ADD => OnAll(k)) /\ (LastOp(k) = DEL => OnNone(k)))
    /\ [][\A c \in Callers :
            (last'[c] # last[c] /\ Called(c)' /\ last'[c].readOk)
                => /\ last'[c].before = disk
                   /\ disk' \in {disk, last'[c].mem}
                   /\ \A o \in Callers \ {c} : last'[o] = last[o]]_vars
    /\ [][disk' # disk => \E c \in Callers : last'[c] # last[c] /\ disk' = last'[c].mem]_vars

\* a pulled batch and a pushed batch both changed the file, the pull first
C19_Witness ==
    /\ Called("pull") /\ last["pull"].changed /\ Took(last["pull"])
    /\ Called("push") /\ last["push"].changed /\ Took(last["push"])
    /\ last["push"].before = last["pull"].mem
    /\ disk = last["push"].mem

\* C20: the file at the config path only ever goes from the complete previous
\* configuration to the complete new one of a call that wrote it; when the
\* write raises at any step the path still holds the previous configuration
\* and neither reload nor restart is run.
C20_AtomicWrite ==
    /\ [][\A c \in Callers :
            (last'[c] # last[c] /\ Called(c)')
                => /\ disk' \in {disk, last'[c].mem}
                   /\ (disk' # disk) => (last'[c].changed /\ ~last'[c].writeFailed)
                   /\ last'[c].writeFailed
                        => (disk' = disk /\ last'[c].reloads = 0 /\ last'[c].restarts = 0)]_vars
    /\ [][disk' # disk => \E c \in Callers : last'[c] # last[c] /\ Called(c)']_vars

\* a batch changed the configuration in memory, the write raised, the file is as before
C20_Witness ==
    /\ Called("push") /\ last["push"].writeFailed
    /\ last["push"].mem # last["push"].before
    /\ disk = last["push"].before


\* C21: the push command applies the tasks of a single task object, of an
\* object with a task array and of a bare array of task objects; every other
\* payload is answered with an error status and leaves the config as it was
\* (violated: an object whose tasks field is not an array is answered 200)
C21_BadPayloadRejected ==
    push.pc = "respond" =>
        IF push.body \in BadPayloads
        THEN /\ push.status \in 400..599
             /\ Called("push") => disk = last["push"].before
        ELSE push.status = 200 /\ Called("push")

----------------------------------------------------------------------------
(* Claims about the boundary of the control plane *)

BadHeaders == Headers \ {Authorized}

\* C22: a heartbeat, pull, acknowledgment or task-creation request whose
\* Authorization header is missing, does not start with "Bearer " or carries
\* another token than the secret is answered 401 at once: no heartbeat is
\* stored, no task is created and no task changes status
C22_UnauthorizedRejected ==
    [][\A c \in Clients, h \in BadHeaders :
          (\/ AddKeyCheck(c, h, "s1", NoEmail, KA)
           \/ RemoveKeyCheck(c, h, "s1", KB)
           \/ GetTasksSelect(c, h, "s1")
           \/ \E t \in 1..MaxTasks : AckSelect(c, h, t, "done")
           \/ \E b \in Beats : HeartbeatCheck(c, h, b))
          => /\ hs'[c].pc = "done" /\ hs'[c].code = 401
             /\ server_tasks' = server_tasks
             /\ heartbeats' = heartbeats]_vars

\* an unauthorized pull was answered while a task was pending for its server
C22_Witness ==
    \E c \in Clients :
        /\ hs[c] = Done("get_tasks", 401, <<>>)
        /\ PendingFor("s1") # <<>>

Unparsable(b) ==
    ~parse_timestamp(b.generated_at).ok \/ ~parse_timestamp(b.ready_at).ok

\* C23: a heartbeat with an unparsable generated_at or ready_at is answered
\* with a 4xx status and stores no record; a persistence failure is answered
\* with a 5xx status; otherwise the reply is 200 with the id of the new record
\* (violated: the unparsable timestamp is answered 500)
C23_HeartbeatOutcomes ==
    [][\A c \in Clients :
          /\ \A b \in Beats :
                HeartbeatCheck(c, Authorized, b) /\ b.server_id # "" /\ Unparsable(b)
                => /\ hs'[c].pc = "done" /\ hs'[c].code \in 400..499
                   /\ heartbeats' = heartbeats
          /\ HeartbeatCommit(c)
                => \/ hs'[c].code \in 500..599
                   \/ /\ hs'[c].code = 200
                      /\ heartbeats' = Append(heartbeats, hs[c].row)
                      /\ hs'[c].body = <<Len(heartbeats')>>]_vars

----------------------------------------------------------------------------
(* Claims about the reload of the proxy and the agent's subprocesses *)

\* C24: when a batch changed the config, the reload is signalled only after
\* the new config is in place at the path, and once; the restart is attempted
\* exactly when that reload returned a failure status, and at most once
C24_ReloadAfterWrite ==
    Called("push") =>
        LET e == last["push"]
        IN /\ e.reloads <= 1 /\ e.restarts <= 1
           /\ e.reloads = 1 => e.writes = 1 /\ disk = e.mem
           /\ e.writes = 1 => e.changed /\ e.reloads = 1
           /\ (e.changed /\ Took(e)) => e.writes = 1
           /\ e.restarts = 1 <=> e.io = "reload failed"

\* a batch was written, its reload failed and the restart was attempted
C24_Witness ==
    /\ Called("push")
    /\ last["push"].writes = 1 /\ last["push"].reloads = 1 /\ last["push"].restarts = 1
    /\ disk # last["push"].before

\* C25: every subprocess of the agent runs under a timeout: one that never
\* exits is killed, its step takes the failure default (no connection counted,
\* loss 100 and no latency) and the iteration or push request that started it
\* completes (violated: a reload or restart that never exits is waited for
\* without end)
C25_SubprocessTimeout ==
    /\ ~Hung
    /\ \A c \in Callers : Called(c) => last[c].io \notin {"reload hangs", "restart hangs"}
    /\ (Sampled /\ mon.fault.kind = "never exits") =>
          /\ mon.fault.src = "ss" => mon.payload.active_conns = 0
          /\ mon.fault.src = "ping" =>
                /\ mon.payload.packet_loss_pct = 100
                /\ mon.payload.latency_p50_ms = 0 /\ mon.payload.latency_p95_ms = 0

\* C26: a pull that fails or whose response is not a list of task objects, and
\* a config file that cannot be read or written, never end the agent loop
\* (violated: a list holding a value that is not an object raises out of
\* run_loop)
C26_LoopSurvives == ag.pc # "aborted"

----------------------------------------------------------------------------
(* Claims about the order of a batch and the rates of the loop *)

\* the position of the last add_key or del_key task of the batch that names
\* key k, 0 when there is none
LastNaming(tasks, k) ==
    LET hits == {n \in 1..Len(tasks) :
                    Strip(tasks[n].id) = k /\ Strip(tasks[n].type) \in {ADD, DEL}}
    IN IF hits = {} THEN 0 ELSE CHOOSE n \in hits : \A m \in hits : m <= n

\* the entries of a list whose id is k
EntriesOf(clients, k) == SelectSeq(clients, LAMBDA c : c.id = k)

\* C27: the tasks of a batch are applied in delivery order to every listener
\* whose protocol is vless: on each of them a key is present after the batch
\* when the last task naming it is an add_key and absent when it is a del_key,
\* a key no task names keeps its entries, and other listeners are untouched
C27_LastTaskDecides ==
    \A c \in Callers :
        (Called(c) /\ last[c].readOk /\ ~last[c].raised) =>
            LET e == last[c]
            IN \A i \in 1..Len(e.before) :
                 IF ~IsVless(e.before[i]) THEN e.mem[i] = e.before[i]
                 ELSE \A k \in Keys :
                        LET n == LastNaming(e.tasks, k)
                        IN IF n = 0
                           THEN EntriesOf(e.mem[i].clients, k) = EntriesOf(e.before[i].clients, k)
                           ELSE IF Strip(e.tasks[n].type) = ADD
                           THEN Count(e.mem[i].clients, k) >= 1
                           ELSE Count(e.mem[i].clients, k) = 0

\* del_key a then add_key a against two vless listeners, one holding a twice
\* and one holding it once: both hold it once afterwards
C27_Witness ==
    /\ Called("push") /\ last["push"].readOk
    /\ Len(last["push"].tasks) = 2
    /\ Strip(last["push"].tasks[1].type) = DEL /\ Strip(last["push"].tasks[2].type) = ADD
    /\ Strip(last["push"].tasks[1].id) = KA /\ Strip(last["push"].tasks[2].id) = KA
    /\ Cardinality({i \in 1..Len(last["push"].before) : IsVless(last["push"].before[i])}) = 2
    /\ Count(last["push"].before[1].clients, KA) = 2
    /\ Count(last["push"].mem[1].clients, KA) = 1
    /\ Count(last["push"].mem[2].clients, KA) = 1

\* no counter of window b is below its value in window a
NonDecreasing(a, b) ==
    /\ b.rx_pkts >= a.rx_pkts /\ b.tx_pkts >= a.tx_pkts
    /\ b.active_opens >= a.active_opens /\ b.passive_opens >= a.passive_opens

\* C28: with non-decreasing counters and dt > 0 whole seconds since the
\* preceding iteration, the packet rate of each direction is
\* floor((current - previous) / dt) and the connection rate is
\* floor(((active - prev_active) + (passive - prev_passive)) / dt); previous is
\* the window the preceding iteration captured: every iteration that ends
\* replaces it with its own, whatever became of its heartbeat and its pull
C28_RatesFromPreviousWindow ==
    [][/\ (ag.pc = "sample" /\ ag'.pc = "heartbeat"
           /\ mon.last_ts > 0 /\ mon'.now > mon.last_ts /\ NonDecreasing(mon.prev, mon'.cur))
          => LET dt == mon'.now - mon.last_ts
                 p == mon'.payload
             IN /\ p.pps_rx = (mon'.cur.rx_pkts - mon.prev.rx_pkts) \div dt
                /\ p.pps_tx = (mon'.cur.tx_pkts - mon.prev.tx_pkts) \div dt
                /\ p.conn_est_rate_s =
                      ((mon'.cur.active_opens - mon.prev.active_opens)
                       + (mon'.cur.passive_opens - mon.prev.passive_opens)) \div dt
                /\ mon'.prev = mon.prev /\ mon'.last_ts = mon.last_ts
       /\ (ag.pc = "update" /\ ag'.pc = "sample")
          => mon'.prev = mon.cur /\ mon'.last_ts = mon.now]_vars

\* two seconds after the preceding iteration, 5 and 2 packets and 3
\* connections more than in its window give the rates 2, 1 and 1
C28_Witness ==
    /\ Sampled
    /\ mon.last_ts > 0 /\ mon.now = mon.last_ts + 2
    /\ mon.prev = WA /\ mon.cur = WB
    /\ mon.payload.pps_rx = 2 /\ mon.payload.pps_tx = 1
    /\ mon.payload.conn_est_rate_s = 1

----------------------------------------------------------------------------
(* Claims about the latency probe *)

\* C29: when the ping command exits with a failure status, cannot be started
\* or is killed at its timeout, the payload carries loss 100 and latencies 0;
\* when it exits with status 0 and no round-trip time is parsed, the latencies
\* are 0 and the loss is the one parsed from the output
C29_ProbeFailSafe ==
    (Sampled /\ mon.fault.src = "ping") =>
        LET p == mon.payload
        IN /\ mon.fault.kind # "exit 0"
                => /\ p.packet_loss_pct = 100
                   /\ p.latency_p50_ms = 0 /\ p.latency_p95_ms = 0
           /\ (mon.fault.kind = "exit 0" /\ mon.ping.times = <<>>)
                => /\ p.latency_p50_ms = 0 /\ p.latency_p95_ms = 0
                   /\ p.packet_loss_pct = mon.ping.loss

\* a ping that printed a loss of 25 and three times before it exited with a
\* failure status
C29_Witness ==
    /\ Sampled
    /\ mon.fault = [src |-> "ping", kind |-> "exit 1"]
    /\ mon.ping = PingOut(1, 25, <<30, 10, 20>>)
    /\ mon.payload.packet_loss_pct = 100

----------------------------------------------------------------------------
(* Claims about the creation of tasks *)

\* key identifiers that are not a UUID: a word, a UUID after a blank, a blank,
\* a hexadecimal literal
NotUuids == {S("zz"), <<SP, "a">>, <<SP>>, K0x}

RejectedAtBoundary(c) ==
    /\ hs'[c].pc = "done" /\ hs'[c].code \in 400..499
    /\ server_tasks' = server_tasks

\* C30: add_key and remove_key with a key identifier that is not a valid UUID,
\* or for a server that does not exist, are answered with a 4xx status and
\* leave the task queue as it was; so is add_key for an inactive server
\* (violated: the hexadecimal literal passes uuid.UUID and its task is queued)
C30_BadCreateRejected ==
    [][\A c \in Clients, s \in ServerInputs, k \in KeyInputs :
          /\ ( /\ AddKeyCheck(c, Authorized, s, <<"e", SP>>, k)
               /\ \/ s = "s3"
                  \/ s = "s2"
                  \/ Strip(k) \in NotUuids )
             => RejectedAtBoundary(c)
          /\ ( /\ RemoveKeyCheck(c, Authorized, s, k)
               /\ (s = "s3" \/ k \in NotUuids) )
             => RejectedAtBoundary(c)]_vars

----------------------------------------------------------------------------
(* Claims about the order of the agent's steps *)

\* the moves of run_loop from one step to the next
IterationOrder ==
    {<<"sample", "heartbeat">>, <<"heartbeat", "pull">>, <<"pull", "pull_wait">>,
     <<"pull", "update">>, <<"pull_wait", "ack">>, <<"pull_wait", "update">>,
     <<"ack", "update">>, <<"update", "sample">>}

\* C31: an iteration posts its heartbeat, then pulls, then applies, then sends
\* its acknowledgments, and the next iteration starts only when all of them are
\* sent; the agent never has more than one heartbeat or one pull in flight
C31_OneIterationAtATime ==
    [][/\ ag'.pc # ag.pc => <<ag.pc, ag'.pc>> \in IterationOrder
       /\ mon'.posts > mon.posts
            => ag.pc = "heartbeat" /\ mon.posts = 0 /\ hs["agent"].pc # "commit"
       /\ (hs'["agent"] # hs["agent"] /\ hs'["agent"].op = "get_tasks" /\ Free("agent"))
            => ag.pc = "pull" /\ mon.posts = 1 /\ ~Called("pull") /\ ag.sent = <<>>
       /\ hs["agent"].pc = "commit" => ag.pc = "pull_wait"
       /\ (last'["pull"].src # "none" /\ ~Called("pull"))
            => ag.pc = "pull_wait" /\ hs["agent"].pc = "done" /\ ag.sent = <<>>
       /\ (ag'.sent # ag.sent /\ ag'.sent # <<>>) => ag.pc = "ack" /\ Called("pull")
       /\ (ag.pc = "update" /\ ag'.pc = "sample")
            => hs["agent"].pc # "commit" /\ Len(ag.sent) = Len(ag.done_ids)]_vars

\* an iteration that follows one whose batch of two tasks was applied and
\* acknowledged has posted its heartbeat
C31_Witness ==
    /\ ag.pc = "pull"
    /\ Cardinality(ag.seen) = 2
    /\ mon.posts = 1
    /\ ag.sent = <<>> /\ ~Called("pull")

----------------------------------------------------------------------------
(* The event loop shared by run_loop and the command listener *)

\* lines 217-221: the caller is inside subprocess.call, which gives the event
\* loop back only when the command has ended
InCall(c) == Called(c) /\ last[c].io \in {"reload hangs", "restart hangs"}

\* the handler of the listener can take a step
ListenerServed == ~InCall("pull")

\* run_loop can take a step
LoopRuns == ~InCall("push")

\* lines 378-379, 214-218: the pulled batch changed the config, the file is
\* written and the loop is inside the call of the reload command
AgentPullCalls ==
    /\ ag.pc = "pull_wait"
    /\ hs["agent"].pc = "done"
    /\ hs["agent"].code = 200 /\ hs["agent"].body # <<>>
    /\ LET pulled == hs["agent"].body
       IN /\ apply_tasks_hangs(pulled, "pull")
          /\ ag' = AgentAt("in call", DoneIds(pulled), 1, <<>>,
                           ag.seen \cup {pulled[n].task_id : n \in 1..Len(pulled)})
    /\ UNCHANGED <<uniq0, push, mon, queueVars>>

\* lines 218-222: the command ended; a reload that reports a failure is
\* followed by the call of the restart command
CallReturns(c, rc) ==
    IF last[c].io = "reload hangs" /\ rc # 0
    THEN [last EXCEPT ![c].io = "restart hangs", ![c].restarts = 1]
    ELSE [last EXCEPT ![c].io = IF last[c].restarts = 1 THEN "reload failed" ELSE "ok"]

\* lines 379-383: apply_tasks returns to run_loop
AgentCallReturns ==
    /\ ag.pc = "in call"
    /\ \E rc \in {0, 1} :
          /\ last' = CallReturns("pull", rc)
          /\ ag' = IF last'["pull"].io = "restart hangs" THEN ag
                   ELSE [ag EXCEPT !.pc = IF ag.done_ids # <<>> THEN "ack" ELSE "update"]
    /\ UNCHANGED <<disk, ops, uniq0, push, mon, queueVars>>

\* lines 267-268: apply_tasks returns to handle_command
CommandCallReturns ==
    /\ push.pc = "hung"
    /\ \E rc \in {0, 1} :
          /\ last' = CallReturns("push", rc)
          /\ push' = IF last'["push"].io = "restart hangs" THEN push
                     ELSE [push EXCEPT !.pc = "respond", !.status = 200]
    /\ UNCHANGED <<disk, ops, uniq0, queueVars, ag, mon>>

\* the agent process: run_loop and the listener take their steps on one event
\* loop, the control plane runs beside it
NextShared ==
    \/ add_key({"op1"}, {"s1"}, {KA})
    \/ CreateCommit("op1") \/ GetTasksCommit("agent")
    \/ LoopRuns /\ AgentSample(QuietWorlds)
    \/ LoopRuns /\ AgentHeartbeat({"accepted"})
    \/ LoopRuns /\ AgentPull
    \/ LoopRuns /\ AgentPullUnreachable
    \/ LoopRuns /\ AgentPullLost
    \/ LoopRuns /\ AgentPullResponse
    \/ LoopRuns /\ AgentPullCalls
    \/ AgentCallReturns
    \/ LoopRuns /\ AgentAck
    \/ LoopRuns /\ AgentAcked
    \/ LoopRuns /\ AgentNextIteration
    \/ ListenerServed /\ CommandArrives(BothPayloads)
    \/ ListenerServed /\ CommandRejected
    \/ ListenerServed /\ CommandApplied
    \/ ListenerServed /\ CommandHangs
    \/ CommandCallReturns
    \/ ListenerServed /\ CommandDone

SpecShared == InitBoth /\ [][NextShared]_vars

\* C32: while run_loop waits for an outbound call or for the reload or restart
\* command, the listener still handles a request, and while a request waits
\* for the reload command, run_loop still takes its steps (violated: the
\* reload and restart commands are called without yielding the event loop)
C32_ListenerAndLoopIndependent ==
    /\ ag.pc \in {"pull_wait", "in call"} => ListenerServed
    /\ push.pc = "hung" => LoopRuns

----------------------------------------------------------------------------
(* Claims about what the acknowledgments of the agent stand for *)

\* the pulled tasks an acknowledgment that was sent answers
AckedTasks ==
    {n \in 1..Len(last["pull"].tasks) :
        \E m \in 1..Len(ag.sent) :
            /\ ag.sent[m].task_id = last["pull"].tasks[n].task_id
            /\ ag.sent[m].status = "done"}

\* no task after the n-th of the batch names its key
NamedLast(tasks, n) ==
    \A m \in (n + 1)..Len(tasks) : Strip(tasks[m].id) # Strip(tasks[n].id)

\* C33: a done acknowledgment is sent only for a batch that was read and
\* written without error, so that the key of an acknowledged add_key (del_key)
\* that no later task names is present (absent) on every vless listener of the
\* file (violated: apply_tasks returns nothing and swallows the failure, and
\* run_loop acknowledges whatever it pulled)
C33_AckOnlyReconciled ==
    LET e == last["pull"]
    IN (Called("pull") /\ ag.sent # <<>>) =>
          /\ Took(e)
          /\ \A n \in AckedTasks :
                NamedLast(e.tasks, n) =>
                   \A i \in 1..Len(disk) :
                      IsVless(disk[i]) =>
                         /\ Strip(e.tasks[n].type) = ADD
                               => Count(disk[i].clients, Strip(e.tasks[n].id)) >= 1
                         /\ Strip(e.tasks[n].type) = DEL
                               => Count(disk[i].clients, Strip(e.tasks[n].id)) = 0

----------------------------------------------------------------------------
(* Claims about concurrent pulls *)

\* the tasks the pull response client c holds carries
Returned(c) ==
    IF hs[c].pc = "done" /\ hs[c].op = "get_tasks" /\ hs[c].code = 200
    THEN {hs[c].body[n].task_id : n \in 1..Len(hs[c].body)}
    ELSE {}

\* C34: two pulls for the same server whose select and commit steps interleave
\* never both return the same task (violated: both select the pending rows
\* before either marks them delivered, and both return them)
C34_PulledOnce ==
    \A c1, c2 \in Clients : c1 # c2 => Returned(c1) \cap Returned(c2) = {}

----------------------------------------------------------------------------
(* Claims about the heartbeat payload and the ingestion schema *)

\* schemas.py lines 26-51: the bounds of HeartbeatRequest on what the agent
\* measures, percentages in tenths of a percent as cpu_sample gives them
InSchema(p) ==
    /\ p.uptime_s >= 0 /\ p.mem_total_mb >= 0 /\ p.mem_free_mb >= 0
    /\ p.cpu_total_pct >= 0 /\ p.cpu_total_pct <= 1000
    /\ p.softirq_pct >= 0 /\ p.softirq_pct <= 1000
    /\ p.bw_rx_mbps >= 0 /\ p.bw_tx_mbps >= 0 /\ p.bw_total_mbps >= 0
    /\ p.pps_rx >= 0 /\ p.pps_tx >= 0 /\ p.pps_total >= 0
    /\ p.conn_est_rate_s >= 0 /\ p.active_conns >= 0
    /\ p.conntrack_usage_pct >= 0 /\ p.conntrack_usage_pct <= 1000
    /\ p.rx_dropped >= 0 /\ p.tx_dropped >= 0
    /\ p.latency_p50_ms >= 0 /\ p.latency_p95_ms >= 0
    /\ p.packet_loss_pct >= 0 /\ p.packet_loss_pct <= 100

\* C35: every heartbeat the agent posts carries values inside the bounds of the
\* ingestion schema, whatever the counters did between two samples (violated:
\* the bandwidth of a counter that went backwards is negative)
C35_PayloadInSchema == (Posted /\ mon.posts = 1) => InSchema(mon.payload)

----------------------------------------------------------------------------
(* Claims about a delivered task and the creation of tasks *)

\* two rows for the same server, key and kind
SameKey(r1, r2) ==
    r1.server_id = r2.server_id /\ r1.key_id = r2.key_id /\ r1.type = r2.type

\* C36: while a task is delivered, no creation request for its server, key
\* and kind passes the uniqueness query and no task for them is created, and
\* the task leaves the delivered status only by an acknowledgment of it
\* (violated: a creation request that ran its uniqueness query before the task
\* existed inserts its task after the first one was delivered)
C36_DeliveredBlocksCreation ==
    [][\A i \in 1..Len(server_tasks) :
          server_tasks[i].status = "delivered" =>
             /\ \A c \in Clients :
                   (Free(c) /\ hs'[c].pc = "commit" /\ hs'[c].op \in {"add_key", "remove_key"})
                      => ~SameKey(hs'[c].row, server_tasks[i])
             /\ \A j \in (Len(server_tasks) + 1)..Len(server_tasks') :
                   ~SameKey(server_tasks'[j], server_tasks[i])
             /\ server_tasks'[i].status # "delivered"
                   => \E c \in Clients : /\ hs[c].pc = "commit" /\ hs[c].op = "ack_task"
                                         /\ hs[c].task_id = i /\ hs'[c].pc = "done"]_vars

----------------------------------------------------------------------------
(* Claims about tasks the mutator passes over *)

\* a task of another kind than add_key and del_key, or without a key once
\* its id is trimmed
Inert(t) == Strip(t.type) \notin {ADD, DEL} \/ Strip(t.id) = <<>>

\* C37: a task whose trimmed kind is neither add_key nor del_key, or whose
\* trimmed key is empty, changes no listener: the batch leaves the config as
\* the batch without these tasks does; a batch of such tasks only writes
\* nothing and reloads nothing; and no task changes a listener that is not vless
C37_InertTasksNoEffect ==
    LET e == last["push"]
    IN (Called("push") /\ e.readOk /\ AllObjects(e.tasks)) =>
          /\ e.mem = Mutate(e.before, SelectSeq(e.tasks, LAMBDA t : ~Inert(t))).cfg
          /\ (\A n \in 1..Len(e.tasks) : Inert(e.tasks[n])) =>
                /\ e.mem = e.before /\ disk = e.before
                /\ ~e.changed
                /\ e.writes = 0 /\ e.reloads = 0 /\ e.restarts = 0
          /\ \A i \in 1..Len(e.before) :
                ~IsVless(e.before[i]) => e.mem[i] = e.before[i] /\ disk[i] = e.before[i]

\* a batch of a task of an unknown kind and a task with a blank key, both
\* against a config that holds the key the first one names, beside a vmess
\* listener that holds it too
C37_Witness ==
    /\ Called("push")
    /\ last["push"].tasks = <<Task(S("custom"), KA, NoEmail, NoTaskId),
                              Task(ADD, <<SP>>, NoEmail, NoTaskId)>>
    /\ Count(last["push"].before[1].clients, KA) = 1
    /\ last["push"].before[2].protocol = "vmess"
    /\ disk = last["push"].before
    /\ last["push"].writes = 0 /\ last["push"].reloads = 0

----------------------------------------------------------------------------
(* The agent that keeps iterating over a reliable transport *)

\* lines 378-379 on a config file that is read and written without error
AgentPullApplied ==
    /\ AgentPullResponse
    /\ last'["pull"].src # "none" => Took(last'["pull"])

\* lines 225-230 when the request reaches the control plane
AgentAckArrives ==
    /\ ag.pc = "ack"
    /\ ag.n <= Len(ag.done_ids)
    /\ AckSelect("agent", Authorized, ag.done_ids[ag.n], NoParam)
    /\ ag' = [ag EXCEPT !.n = @ + 1,
                        !.sent = Append(@, [task_id |-> ag.done_ids[ag.n], status |-> "done"])]

\* one step of run_loop when nothing fails
LoopStep ==
    \/ AgentSample(QuietWorlds) \/ AgentHeartbeat({"accepted"})
    \/ AgentPull \/ AgentPullApplied
    \/ AgentAckArrives \/ AgentAcked \/ AgentNextIteration

NextLive ==
    \/ add_key({"op1"}, {"s1"}, {KA})
    \/ remove_key({"op1"}, {"s1"}, {KB})
    \/ CreateCommit("op1") \/ GetTasksCommit("agent")
    \/ LoopStep

\* the loop keeps taking its steps and the control plane answers every request
SpecLive ==
    /\ Init /\ [][NextLive]_vars
    /\ WF_vars(LoopStep)
    /\ WF_vars(CreateCommit("op1")) /\ WF_vars(GetTasksCommit("agent"))

\* task i exists and is for the server of the agent
Created(i) == i <= Len(server_tasks) /\ server_tasks[i].server_id = AgentServerId

\* the pull response that carried task i reached the agent
Pulled(i) == i \in ag.seen

\* every vless listener of the file is as task i asks
OnDisk(i) ==
    \A j \in 1..Len(disk) :
        IsVless(disk[j]) =>
            IF server_tasks[i].type = ADD
            THEN Count(disk[j].clients, server_tasks[i].key_id) >= 1
            ELSE Count(disk[j].clients, server_tasks[i].key_id) = 0

\* C38: over a reliable transport, with a config file that can be read and
\* written and a loop that keeps iterating, every task created for the server
\* of the agent is eventually pulled, eventually applied to the file and
\* eventually has status done (violated: the acknowledgment carries its status
\* in the body, ack_task answers 422 and the task stays delivered for ever)
C38_EventuallyDone ==
    \A i \in 1..MaxTasks :
        Created(i) ~> (Pulled(i) /\ OnDisk(i) /\ server_tasks[i].status = "done")

\* what holds of it: every such task is eventually pulled and on the file
C38_PulledAndApplied ==
    \A i \in 1..MaxTasks : Created(i) ~> (Pulled(i) /\ OnDisk(i))

============================================================================
